---- MODULE Spec2Model ----
(***************************************************************************)
(* llm-jury: the escalation gate (Jury), the debate engine and the batch   *)
(* driver, as a state machine whose steps are the stretches of code that   *)
(* run between two suspension points of the cooperative event loop.        *)
(*                                                                         *)
(* Numbers.  Confidences and the threshold are integers 0..MaxConf that    *)
(* stand for k/MaxConf in [0,1]; costs are integers (cost units).          *)
(***************************************************************************)
EXTENDS Integers, Sequences, FiniteSets, TLC

\* ------------------------------------------------------------------ bounds
MaxPersonas == 3      \* longest persona list (modes with a single round)
MaxConf == 2          \* confidence scale: 0..MaxConf stands for [0,1]
MaxReplyCost == 1     \* largest cost of one completion call
MaxCeiling == 2       \* largest configured cost ceiling
MaxRoundsCfg == 3     \* largest configured max_rounds
MaxJuryPersonas == 1  \* longest parallel persona list of a Jury under Spec
MaxDelibPersonas == 2 \* longest persona list in Deliberation mode
MaxItems == 2         \* longest batch
MaxCalls == 2         \* top-level API calls in one behaviour of SpecBatch
MaxSingleCalls == 1   \* the same, of Spec and SpecDebate
MaxVotes == 3         \* longest final round handed to a vote judge

\* ---------------------------------------------------------------- constants
MaxAttempts == 3      \* stop_after_attempt(3)
ThresholdDen == 100   \* candidate thresholds are hundredths (x / 100.0)
TruncLen == 200       \* raw[:200] in the fallback reasoning
EpsDen == 1000000     \* the floor 1e-6 of a Bayesian factor is 1/EpsDen

\* ------------------------------------------------------------- value sets
NoneVal == "None"            \* None where a string is expected
NoneCost == 0 - 1            \* None where a number is expected
NoneRec == [none |-> TRUE]   \* None where a record is expected
Labels == <<"safe", "unsafe">>
LabelSet == {Labels[i] : i \in 1..Len(Labels)}
Confs == 0..MaxConf
Modes == {"independent", "sequential", "deliberation", "adversarial"}

ReplyCosts == {NoneCost} \cup (1..MaxReplyCost)
ReplyTokens == {3}
ReplyConfs == {MaxConf}
\* JSON values are tagged with their type: a number k is [num |-> k], a
\* string that spells a number is JsonNumStr(k), other strings, lists and
\* null carry their own tag
JsonNum(k) == [num |-> k]
JsonNumStr(k) == [num |-> k, quoted |-> TRUE]
JsonNull == [null |-> TRUE]
\* what a completion can hold: a JSON object with label and confidence, or
\* text that is not JSON; `len` is the number of characters of a text
NotJson == [text |-> "not-json", len |-> 8]
ObjectContents == [label : LabelSet, confidence : {JsonNum(c) : c \in ReplyConfs}]
Contents == {NotJson} \cup ObjectContents
\* an exception of the given type leaves the function
Raised(type) == [raised |-> type]
IsRaised(x) == "raised" \in DOMAIN x
PayloadsOf(contents, costs) ==
    [content : contents, tokens : ReplyTokens, cost_usd : costs]
SummaryText == [text |-> "summary"]

PrimaryCosts == {NoneCost, 1}
\* what the configured judge strategy can hand back (a custom strategy):
\* honest = it filled was_escalated / primary_result / debate_transcript
\* from the transcript; otherwise it left other values there
JudgeRaises == [raises |-> TRUE]
JudgeChoices == {JudgeRaises} \cup
    [label : LabelSet, honest : BOOLEAN, total_cost_usd : {NoneCost, 0}]

Max(a, b) == IF a >= b THEN a ELSE b
Min(a, b) == IF a <= b THEN a ELSE b

\* `float(x or 0.0)`
CostOr0(c) == IF c = NoneCost THEN 0 ELSE c

RECURSIVE SumCost(_)
SumCost(s) == IF s = <<>> THEN 0 ELSE s[1].cost_usd + SumCost(Tail(s))

RECURSIVE SumTokens(_)
SumTokens(s) == IF s = <<>> THEN 0 ELSE s[1].tokens_used + SumTokens(Tail(s))

VARIABLES
    cfg,      \* the Jury / DebateEngine construction arguments
    stats,    \* JuryStats
    call,     \* the top-level API call in progress
    tasks,    \* one coroutine per input text
    ncalls    \* top-level calls made so far

vars == <<cfg, stats, call, tasks, ncalls>>

Items == 1..MaxItems
NP == Len(cfg.personas)
PersonaIdx == 1..NP

\* ------------------------------------------------------------ utils.py
\* float(value): a number and a string that spells one convert; any other
\* string raises ValueError, null and containers raise TypeError
FloatRaises(value) ==
    IF "num" \in DOMAIN value THEN NoneVal
    ELSE IF "str" \in DOMAIN value THEN "ValueError"
    ELSE "TypeError"

\* clamp_confidence: max(0.0, min(1.0, float(value))), where float returned
clamp_confidence(value) == Max(0, Min(MaxConf, value.num))

\* strip_markdown_fences: the lines of a text that starts with a fence,
\* without the fence lines
strip_markdown_fences(content) ==
    IF "fence" \in DOMAIN content THEN content.body ELSE content

\* safe_json_parse: the parsed value when it is a dict, else None
safe_json_parse(content) ==
    IF "text" \in DOMAIN content \/ "json" \in DOMAIN content
    THEN NoneRec ELSE content

\* safe_json_parse(strip_markdown_fences(raw)) yields a dict
IsObject(content) == safe_json_parse(strip_markdown_fences(content)) # NoneRec

\* len(raw)
RawLen(raw) ==
    IF "fence" \in DOMAIN raw THEN raw.body.len + raw.fence ELSE raw.len

\* raw[:n]
Truncated(raw, n) == [of |-> raw, len |-> Min(RawLen(raw), n)]

\* [str(item) for item in value]: a list gives its items, a string its
\* characters, a number or null is not iterable
StrItemsRaises(value) == "list" \notin DOMAIN value /\ "chars" \notin DOMAIN value
StrItems(value) == IF "list" \in DOMAIN value THEN value.list ELSE value.chars

\* --------------------------------------------------------- debate/engine.py
\* DebateEngine._parse_persona_response
_parse_persona_response(raw, persona_name, labels) ==
    LET payload == safe_json_parse(strip_markdown_fences(raw))
        confidence == IF "confidence" \in DOMAIN payload
                      THEN payload.confidence ELSE JsonNum(0)
        key_factors == IF "key_factors" \in DOMAIN payload
                       THEN payload.key_factors ELSE [list |-> <<>>]
    IN  IF payload = NoneRec
        THEN [persona_name |-> persona_name,
              label |-> IF Len(labels) > 0 THEN labels[1] ELSE "unknown",
              confidence |-> 0,
              reasoning |-> [failed |-> Truncated(raw, TruncLen)],
              key_factors |-> <<>>, raw_response |-> NoneRec,
              tokens_used |-> 0, cost_usd |-> 0]
        ELSE IF FloatRaises(confidence) # NoneVal
        THEN Raised(FloatRaises(confidence))
        ELSE IF StrItemsRaises(key_factors)
        THEN Raised("TypeError")
        ELSE [persona_name |-> persona_name,
              label |-> IF "label" \in DOMAIN payload
                        THEN payload.label ELSE "unknown",
              confidence |-> clamp_confidence(confidence),
              reasoning |-> [text |-> IF "reasoning" \in DOMAIN payload
                                      THEN payload.reasoning ELSE ""],
              key_factors |-> StrItems(key_factors),
              raw_response |-> NoneRec,
              tokens_used |-> 0, cost_usd |-> 0]

\* mutant: the usage of the call is not copied onto the response
_call_persona_noUsage(persona_name, payload) ==
    LET response == _parse_persona_response(payload.content, persona_name,
                                            cfg.labels)
    IN  IF IsRaised(response) THEN response
        ELSE [response EXCEPT !.raw_response = payload.content]

\* DebateEngine._call_persona, after the completion returned `payload`
_call_persona(persona_name, payload) ==
    LET response == _parse_persona_response(payload.content, persona_name,
                                            cfg.labels)
    IN  IF IsRaised(response) THEN response
        ELSE [response EXCEPT !.raw_response = payload.content,
                              !.tokens_used = payload.tokens,
                              !.cost_usd = CostOr0(payload.cost_usd)]

\* what a prompt shows of earlier responses (name, label, confidence)
Shown(rounds) ==
    [r \in 1..Len(rounds) |->
        [k \in 1..Len(rounds[r]) |->
            [persona_name |-> rounds[r][k].persona_name,
             label |-> rounds[r][k].label,
             confidence |-> rounds[r][k].confidence]]]

\* list.index: position of the first equal entry
IndexOf(seq, x) == CHOOSE i \in 1..Len(seq) :
    seq[i] = x /\ \A j \in 1..(i - 1) : seq[j] # x

\* DebateEngine._build_persona_prompt
_build_persona_prompt(i, prior_rounds) ==
    [kind |-> "assessment",
     persona |-> cfg.personas[i],
     stance |-> IF cfg.mode = "adversarial"
                THEN (IF (IndexOf(cfg.personas, cfg.personas[i]) - 1) % 2 = 0
                      THEN "Prosecution" ELSE "Defense")
                ELSE NoneVal,
     prior |-> Shown(prior_rounds)]

\* mutant: only the initial opinions are shown
_build_deliberation_prompt_initialOnly(i, prior_rounds) ==
    [kind |-> "deliberation",
     persona |-> cfg.personas[i],
     stance |-> NoneVal,
     prior |-> Shown(SubSeq(prior_rounds, 1, 1))]

\* DebateEngine._build_deliberation_prompt
_build_deliberation_prompt(i, prior_rounds) ==
    [kind |-> "deliberation",
     persona |-> cfg.personas[i],
     stance |-> NoneVal,
     prior |-> Shown(prior_rounds)]

\* DebateEngine._consensus_reached
_consensus_reached(round_responses) ==
    LET labels == {round_responses[k].label : k \in 1..Len(round_responses)}
    IN  Len(round_responses) > 0 /\ Cardinality(labels) = 1

\* mutant: the engine stops at the ceiling already
OverCeiling_inclusive(total_cost) ==
    cfg.max_debate_cost_usd # NoneCost /\ total_cost >= cfg.max_debate_cost_usd

\* `max_cost_usd is not None and total_cost > max_cost_usd`
OverCeiling(total_cost) ==
    cfg.max_debate_cost_usd # NoneCost /\ total_cost > cfg.max_debate_cost_usd

DebateTranscript(tk, rounds, total_tokens, total_cost, summary) ==
    [input_text |-> tk.text, primary_result |-> tk.primary, rounds |-> rounds,
     total_tokens |-> total_tokens, total_cost_usd |-> total_cost,
     summary |-> summary]

\* ------------------------------------------------------------ task state
IdleTask ==
    [pc |-> "idle", caller |-> "none", text |-> 0, primary |-> NoneRec,
     rounds |-> <<>>, total_tokens |-> 0, total_cost |-> 0,
     summary |-> NoneRec, stage |-> "none", iter |-> 0,
     cur |-> <<>>, sem |-> 0, responses |-> <<>>, prompt |-> NoneRec,
     transcript |-> NoneRec, judge_out |-> NoneRec, verdict |-> NoneRec,
     llm_calls |-> 0, summary_calls |-> 0, judge_calls |-> 0,
     esc_cb |-> <<>>, verdict_cb |-> <<>>, parse_error |-> NoneVal]

Pending == [st |-> "pending", prompt |-> NoneRec, response |-> NoneRec, arrived |-> 0]

Finished(tk) == tk.pc \in {"idle", "done", "failed"}

\* ------------------------------------------------------------ judges/base.py
Verdict(label, confidence, reasoning, was_escalated, primary_result, debate_transcript, judge_strategy, total_cost_usd) ==
    [label |-> label, confidence |-> confidence, reasoning |-> reasoning,
     was_escalated |-> was_escalated, primary_result |-> primary_result,
     debate_transcript |-> debate_transcript,
     judge_strategy |-> judge_strategy, total_cost_usd |-> total_cost_usd]

\* a custom JudgeStrategy.judge(transcript, labels) that made choice j
CustomJudge(transcript, j) ==
    Verdict(j.label, MaxConf, "mock", j.honest,
            IF j.honest THEN transcript.primary_result ELSE NoneRec,
            IF j.honest THEN transcript ELSE NoneRec,
            "mock", j.total_cost_usd)

\* mutant: the fallback is tagged as a fast-path result of no strategy
_fallback_verdict_untagged(transcript, strategy_name) ==
    Verdict(transcript.primary_result.label,
            transcript.primary_result.confidence,
            "No persona responses", FALSE, transcript.primary_result,
            transcript, "primary", transcript.total_cost_usd)

\* _fallback_verdict
_fallback_verdict(transcript, strategy_name) ==
    Verdict(transcript.primary_result.label,
            transcript.primary_result.confidence,
            "No persona responses", TRUE, transcript.primary_result,
            transcript, strategy_name, transcript.total_cost_usd)

\* `not transcript.rounds or not transcript.rounds[-1]`
NoFinalRound(transcript) ==
    transcript.rounds = <<>> \/ transcript.rounds[Len(transcript.rounds)] = <<>>

\* ------------------------------------------------------ the vote strategies
\* the keys of a dict or Counter filled while the round is walked: its
\* distinct labels in the order of their first appearance
RECURSIVE LabelsInOrder(_)
LabelsInOrder(round) ==
    IF round = <<>> THEN <<>>
    ELSE LET rest == LabelsInOrder(SubSeq(round, 1, Len(round) - 1))
             last == round[Len(round)].label
         IN  IF \E i \in 1..Len(rest) : rest[i] = last THEN rest
             ELSE Append(rest, last)

\* Counter.most_common(1) and max(dict, key=...): the first key, in
\* insertion order, whose value no other key's value exceeds; gt[a][b]
\* tells whether the value of key a is greater than that of key b
FirstMax(keys, gt) ==
    keys[CHOOSE i \in 1..Len(keys) : \A j \in 1..Len(keys) :
            /\ j < i => gt[keys[i]][keys[j]]
            /\ j > i => ~gt[keys[j]][keys[i]]]

\* sum(values)
RECURSIVE SumSeq(_)
SumSeq(values) ==
    IF values = <<>> THEN 0 ELSE values[1] + SumSeq(Tail(values))

\* counts[label]
Count(round, label) ==
    Cardinality({i \in 1..Len(round) : round[i].label = label})

\* scores[label], in confidence units
RECURSIVE Score(_, _)
Score(round, label) ==
    IF round = <<>> THEN 0
    ELSE (IF round[1].label = label THEN round[1].confidence ELSE 0)
         + Score(Tail(round), label)

\* mutant: the first round is tallied
MajorityVoteJudge_firstRound(transcript) ==
    IF NoFinalRound(transcript)
    THEN _fallback_verdict(transcript, "majority_vote")
    ELSE LET final_round == transcript.rounds[1]
             keys == LabelsInOrder(final_round)
             labels == {keys[i] : i \in 1..Len(keys)}
             winner == FirstMax(keys,
                           [a \in labels |-> [b \in labels |->
                               Count(final_round, a) > Count(final_round, b)]])
             reasons == SelectSeq(final_round, LAMBDA r : r.label = winner)
         IN  Verdict(winner,
                     [num |-> Count(final_round, winner),
                      den |-> Len(final_round)],
                     [k \in 1..Len(reasons) |-> reasons[k].reasoning],
                     TRUE, transcript.primary_result, transcript,
                     "majority_vote", transcript.total_cost_usd)

\* MajorityVoteJudge.judge; the confidence k/n is the pair (num, den)
MajorityVoteJudge(transcript) ==
    IF NoFinalRound(transcript)
    THEN _fallback_verdict(transcript, "majority_vote")
    ELSE LET final_round == transcript.rounds[Len(transcript.rounds)]
             keys == LabelsInOrder(final_round)
             labels == {keys[i] : i \in 1..Len(keys)}
             winner == FirstMax(keys,
                           [a \in labels |-> [b \in labels |->
                               Count(final_round, a) > Count(final_round, b)]])
             reasons == SelectSeq(final_round, LAMBDA r : r.label = winner)
         IN  Verdict(winner,
                     [num |-> Count(final_round, winner),
                      den |-> Len(final_round)],
                     [k \in 1..Len(reasons) |-> reasons[k].reasoning],
                     TRUE, transcript.primary_result, transcript,
                     "majority_vote", transcript.total_cost_usd)

\* mutant: every response weighs the same
WeightedVoteJudge_unweighted(transcript) ==
    IF NoFinalRound(transcript)
    THEN _fallback_verdict(transcript, "weighted_vote")
    ELSE LET final_round == transcript.rounds[Len(transcript.rounds)]
             keys == LabelsInOrder(final_round)
             labels == {keys[i] : i \in 1..Len(keys)}
             winner == FirstMax(keys,
                           [a \in labels |-> [b \in labels |->
                               Count(final_round, a) > Count(final_round, b)]])
             total == Len(final_round)
         IN  Verdict(winner,
                     [num |-> Count(final_round, winner), den |-> total],
                     "Weighted vote", TRUE, transcript.primary_result,
                     transcript, "weighted_vote", transcript.total_cost_usd)

\* WeightedVoteJudge.judge; scores and total are in confidence units, the
\* confidence scores[winner] / total is the pair (num, den), and
\* `sum(...) or 1.0` replaces a total of 0 by 1.0 (MaxConf units)
WeightedVoteJudge(transcript) ==
    IF NoFinalRound(transcript)
    THEN _fallback_verdict(transcript, "weighted_vote")
    ELSE LET final_round == transcript.rounds[Len(transcript.rounds)]
             keys == LabelsInOrder(final_round)
             labels == {keys[i] : i \in 1..Len(keys)}
             winner == FirstMax(keys,
                           [a \in labels |-> [b \in labels |->
                               Score(final_round, a) > Score(final_round, b)]])
             sum == SumSeq([i \in 1..Len(keys) |-> Score(final_round, keys[i])])
             total == IF sum = 0 THEN MaxConf ELSE sum
         IN  Verdict(winner,
                     [num |-> Score(final_round, winner), den |-> total],
                     "Weighted vote", TRUE, transcript.primary_result,
                     transcript, "weighted_vote", transcript.total_cost_usd)

\* ---------------------------------------------------------- judges/bayesian.py
PersonaNames == <<"A", "B", "C", "D">>
\* A prior is an integer 0..PriorScale standing for k/PriorScale, so the
\* product prior * likelihood is an integer in units of 1/FactorScale.  The
\* posterior of a label after n responses is the pair (coef, eps) standing
\* for coef / FactorScale^n * (1/EpsDen)^eps: eps counts the factors that
\* were floored.
PriorScale == Len(Labels)
FactorScale == PriorScale * MaxConf

\* persona_priors.get(persona_name, {}).get(label, 1.0 / max(1, len(labels)));
\* a missing entry of the table is NoneCost
PriorOf(persona_priors, persona_name, label, labels) ==
    IF persona_priors[persona_name][label] # NoneCost
    THEN persona_priors[persona_name][label]
    ELSE PriorScale \div Max(1, Len(labels))

\* mutant: the factor is not floored
BayesFactor_noFloor(prior, likelihood) ==
    [coef |-> prior * likelihood, eps |-> 0]

\* max(1e-6, prior * likelihood)
BayesFactor(prior, likelihood) ==
    IF prior * likelihood * EpsDen >= FactorScale
    THEN [coef |-> prior * likelihood, eps |-> 0]
    ELSE [coef |-> FactorScale, eps |-> 1]

\* mutant: the prior of the first response is the starting value and each
\* likelihood is floored on its own
RECURSIVE BayesValue_priorOnce(_, _, _, _)
BayesValue_priorOnce(round, label, labels, persona_priors) ==
    IF round = <<>> THEN [coef |-> 1, eps |-> 0]
    ELSE LET response == round[Len(round)]
             rest == BayesValue_priorOnce(SubSeq(round, 1, Len(round) - 1),
                                          label, labels, persona_priors)
             prior == IF Len(round) = 1
                      THEN PriorOf(persona_priors, response.persona_name,
                                   label, labels)
                      ELSE PriorScale
             likelihood == IF response.label = label
                           THEN response.confidence
                           ELSE MaxConf - response.confidence
             floored == BayesFactor(PriorScale, likelihood)
         IN  [coef |-> rest.coef * ((floored.coef \div PriorScale) * prior),
              eps |-> rest.eps + floored.eps]

\* posterior[label] after the loop over the responses of the round
RECURSIVE BayesValue(_, _, _, _)
BayesValue(round, label, labels, persona_priors) ==
    IF round = <<>> THEN [coef |-> 1, eps |-> 0]
    ELSE LET response == round[Len(round)]
             rest == BayesValue(SubSeq(round, 1, Len(round) - 1),
                                label, labels, persona_priors)
             prior == PriorOf(persona_priors, response.persona_name,
                              label, labels)
             likelihood == IF response.label = label
                           THEN response.confidence
                           ELSE MaxConf - response.confidence
             factor == BayesFactor(prior, likelihood)
         IN  [coef |-> rest.coef * factor.coef,
              eps |-> rest.eps + factor.eps]

\* c \div EpsDen^d rounded down (up = FALSE) or up (up = TRUE)
RECURSIVE DivEps(_, _, _)
DivEps(c, d, up) ==
    IF d = 0 THEN c
    ELSE DivEps((IF up THEN c + EpsDen - 1 ELSE c) \div EpsDen, d - 1, up)

\* v1 > v2 for two posterior values of one round
BayesGreater(v1, v2) ==
    IF v1.eps <= v2.eps
    THEN v1.coef > DivEps(v2.coef, v2.eps - v1.eps, FALSE)
    ELSE v2.coef < DivEps(v1.coef, v1.eps - v2.eps, TRUE)

\* the normalised posterior: label -> value / total as (num, den); total
\* is `sum(posterior.values()) or 1.0`, the polynomial in 1/EpsDen whose
\* coefficient of degree e is the sum of the values of that degree
BayesPosterior(round, labels, persona_priors) ==
    LET values == [i \in 1..Len(labels) |->
                      BayesValue(round, labels[i], labels, persona_priors)]
        n == Len(round)
        sum == [e \in 0..n |->
                   SumSeq([i \in 1..Len(values) |->
                       IF values[i].eps = e THEN values[i].coef ELSE 0])]
        total == IF \A e \in 0..n : sum[e] = 0
                 THEN [e \in 0..n |-> IF e = 0 THEN FactorScale^n ELSE 0]
                 ELSE sum
    IN  [l \in {labels[i] : i \in 1..Len(labels)} |->
            [num |-> BayesValue(round, l, labels, persona_priors),
             den |-> total]]

\* BayesianJudge.judge
BayesianJudge(transcript, labels, persona_priors) ==
    IF NoFinalRound(transcript)
    THEN _fallback_verdict(transcript, "bayesian")
    ELSE IF labels = <<>> THEN Raised("ValueError")  \* max() of no keys
    ELSE LET posterior == BayesPosterior(
                              transcript.rounds[Len(transcript.rounds)],
                              labels, persona_priors)
             winner == FirstMax(labels,
                           [a \in DOMAIN posterior |->
                               [b \in DOMAIN posterior |->
                                   BayesGreater(posterior[a].num,
                                                posterior[b].num)]])
         IN  Verdict(winner, posterior[winner], "Bayesian aggregation", TRUE,
                     transcript.primary_result, transcript, "bayesian",
                     transcript.total_cost_usd)

\* judge.judge(transcript, labels) of the vote strategy j
VoteJudge(j, transcript, labels) ==
    IF j.strategy = "majority_vote" THEN MajorityVoteJudge(transcript)
    ELSE IF j.strategy = "weighted_vote" THEN WeightedVoteJudge(transcript)
    ELSE BayesianJudge(transcript, labels, j.persona_priors)

\* ------------------------------------------------------- judges/llm_judge.py
\* the configured judge strategy is an LLMJudge
UseLLMJudge == [llm_judge |-> TRUE]

\* LLMJudge.judge resumed with the payload of its completion: a Verdict,
\* or the exception that clamp_confidence raised
LLMJudge(transcript, payload) ==
    LET data == safe_json_parse(strip_markdown_fences(payload.content))
        primary == transcript.primary_result
        total == CostOr0(transcript.total_cost_usd) + CostOr0(payload.cost_usd)
        confidence == IF "confidence" \in DOMAIN data
                      THEN data.confidence ELSE JsonNum(primary.confidence)
    IN  IF data = NoneRec
        THEN Verdict(primary.label, primary.confidence, "not valid JSON",
                     TRUE, primary, transcript,
                     "llm_judge_fallback_invalid_json", total)
        ELSE IF FloatRaises(confidence) # NoneVal
        THEN Raised(FloatRaises(confidence))
        ELSE Verdict(IF "label" \in DOMAIN data THEN data.label
                     ELSE primary.label,
                     clamp_confidence(confidence),
                     IF "reasoning" \in DOMAIN data THEN data.reasoning
                     ELSE "LLM judge response.",
                     TRUE, primary, transcript, "llm_judge", total)

\* the transcripts handed to a vote strategy: the k-th response of a round
\* is persona k's; a response names a label of the label set with any
\* confidence, or is the fallback record of a run without labels
VoteResponse(persona_name, label, confidence) ==
    [persona_name |-> persona_name, label |-> label,
     confidence |-> confidence, reasoning |-> [text |-> persona_name],
     key_factors |-> <<>>, raw_response |-> NoneRec, tokens_used |-> 0,
     cost_usd |-> 0]
JudgeRounds ==
    LET Votes == (LabelSet \X Confs) \cup {<<"unknown", 0>>}
        VoteRounds == UNION {[1..n -> Votes] : n \in 0..MaxVotes}
        RoundOf(votes) ==
            [k \in 1..Len(votes) |->
                VoteResponse(PersonaNames[k], votes[k][1], votes[k][2])]
        EarlierRound ==
            <<VoteResponse(PersonaNames[1], Labels[Len(Labels)], MaxConf)>>
    IN  {<<>>} \cup {<<RoundOf(f)>> : f \in VoteRounds}
               \cup {<<EarlierRound, RoundOf(f)>> : f \in VoteRounds}

\* --------------------------------------------------------------- jury/core.py
\* Jury.classify resumed with the judge's verdict (lines 116-128)
AfterJudge(tk, v) ==
    LET w == [v EXCEPT !.was_escalated = TRUE,
                       !.primary_result = tk.primary,
                       !.debate_transcript = tk.transcript,
                       !.total_cost_usd =
                           IF @ = NoneCost
                           THEN tk.transcript.total_cost_usd ELSE @]
    IN  [tk EXCEPT !.pc = "done", !.judge_out = v, !.verdict = w,
                   !.verdict_cb = IF cfg.on_verdict THEN Append(@, w) ELSE @]

\* mutant: the boundary confidence escalates, an override is and-ed with
\* the threshold test
_should_escalate_inclusive(result) ==
    IF cfg.escalation_override.on
    THEN result.confidence \in cfg.escalation_override.yes
         /\ result.confidence <= cfg.threshold
    ELSE result.confidence <= cfg.threshold

\* Jury._should_escalate
_should_escalate(result) ==
    IF cfg.escalation_override.on
    THEN result.confidence \in cfg.escalation_override.yes
    ELSE result.confidence < cfg.threshold

\* mutant: the fast path reports the raw primary cost, None included
FastPathVerdict_rawCost(primary) ==
    [label |-> primary.label, confidence |-> primary.confidence,
     reasoning |-> "primary sufficient", was_escalated |-> FALSE,
     primary_result |-> primary, debate_transcript |-> NoneRec,
     judge_strategy |-> "primary_classifier",
     total_cost_usd |-> primary.cost_usd]

\* Jury.classify, fast path verdict
FastPathVerdict(primary) ==
    Verdict(primary.label, primary.confidence, "primary sufficient", FALSE,
            primary, NoneRec, "primary_classifier", CostOr0(primary.cost_usd))

\* mutant: the cost guard verdict is not marked escalated
CostGuardVerdict_notEscalated(primary, transcript) ==
    Verdict(primary.label, primary.confidence, "debate exceeded cost", FALSE,
            primary, transcript, "cost_guard_primary_fallback",
            transcript.total_cost_usd)

\* Jury.classify, cost guard verdict
CostGuardVerdict(primary, transcript) ==
    Verdict(primary.label, primary.confidence, "debate exceeded cost", TRUE,
            primary, transcript, "cost_guard_primary_fallback",
            transcript.total_cost_usd)

\* mutant: the cost guard fires at the ceiling already
JuryAfterDebate_guardAtCeiling(tk, transcript, j) ==
    IF cfg.max_debate_cost_usd # NoneCost
       /\ transcript.total_cost_usd # NoneCost
       /\ transcript.total_cost_usd >= cfg.max_debate_cost_usd
    THEN [tk EXCEPT !.pc = "done", !.transcript = transcript,
                    !.verdict = CostGuardVerdict(tk.primary, transcript)]
    ELSE IF j = JudgeRaises
    THEN [tk EXCEPT !.pc = "failed", !.transcript = transcript,
                    !.judge_calls = @ + 1]
    ELSE IF j = UseLLMJudge
    THEN [tk EXCEPT !.pc = "judge", !.transcript = transcript,
                    !.judge_calls = @ + 1, !.llm_calls = @ + 1]
    ELSE LET v == CustomJudge(transcript, j)
             w == [v EXCEPT !.was_escalated = TRUE,
                            !.primary_result = tk.primary,
                            !.debate_transcript = transcript,
                            !.total_cost_usd =
                                IF @ = NoneCost
                                THEN transcript.total_cost_usd ELSE @]
         IN [tk EXCEPT !.pc = "done", !.transcript = transcript,
                       !.judge_calls = @ + 1, !.judge_out = v,
                       !.verdict = w,
                       !.verdict_cb = IF cfg.on_verdict THEN Append(@, w) ELSE @]

\* mutant: the judge's verdict is passed on as the judge built it, only the
\* cost is always taken from the transcript
JuryAfterDebate_trustJudge(tk, transcript, j) ==
    IF cfg.max_debate_cost_usd # NoneCost
       /\ transcript.total_cost_usd # NoneCost
       /\ transcript.total_cost_usd > cfg.max_debate_cost_usd
    THEN [tk EXCEPT !.pc = "done", !.transcript = transcript,
                    !.verdict = CostGuardVerdict(tk.primary, transcript)]
    ELSE IF j = JudgeRaises
    THEN [tk EXCEPT !.pc = "failed", !.transcript = transcript,
                    !.judge_calls = @ + 1]
    ELSE IF j = UseLLMJudge
    THEN [tk EXCEPT !.pc = "judge", !.transcript = transcript,
                    !.judge_calls = @ + 1, !.llm_calls = @ + 1]
    ELSE LET v == CustomJudge(transcript, j)
             w == [v EXCEPT !.total_cost_usd = transcript.total_cost_usd]
         IN [tk EXCEPT !.pc = "done", !.transcript = transcript,
                       !.judge_calls = @ + 1, !.judge_out = v,
                       !.verdict = w,
                       !.verdict_cb = IF cfg.on_verdict THEN Append(@, w) ELSE @]

\* mutant: on_verdict is handed the verdict as the judge returned it
JuryAfterDebate_callbackFirst(tk, transcript, j) ==
    IF cfg.max_debate_cost_usd # NoneCost
       /\ transcript.total_cost_usd # NoneCost
       /\ transcript.total_cost_usd > cfg.max_debate_cost_usd
    THEN [tk EXCEPT !.pc = "done", !.transcript = transcript,
                    !.verdict = CostGuardVerdict(tk.primary, transcript)]
    ELSE IF j = JudgeRaises
    THEN [tk EXCEPT !.pc = "failed", !.transcript = transcript,
                    !.judge_calls = @ + 1]
    ELSE IF j = UseLLMJudge
    THEN [tk EXCEPT !.pc = "judge", !.transcript = transcript,
                    !.judge_calls = @ + 1, !.llm_calls = @ + 1]
    ELSE LET v == CustomJudge(transcript, j)
             w == [v EXCEPT !.was_escalated = TRUE,
                            !.primary_result = tk.primary,
                            !.debate_transcript = transcript,
                            !.total_cost_usd =
                                IF @ = NoneCost
                                THEN transcript.total_cost_usd ELSE @]
         IN [tk EXCEPT !.pc = "done", !.transcript = transcript,
                       !.judge_calls = @ + 1, !.judge_out = v,
                       !.verdict = w,
                       !.verdict_cb = IF cfg.on_verdict THEN Append(@, v) ELSE @]

\* Jury.classify from the return of debate() to its own return or raise;
\* j is what the judge strategy does when it is invoked
JuryAfterDebate(tk, transcript, j) ==
    IF cfg.max_debate_cost_usd # NoneCost
       /\ transcript.total_cost_usd # NoneCost
       /\ transcript.total_cost_usd > cfg.max_debate_cost_usd
    THEN [tk EXCEPT !.pc = "done", !.transcript = transcript,
                    !.verdict = CostGuardVerdict(tk.primary, transcript)]
    ELSE IF j = JudgeRaises
    THEN [tk EXCEPT !.pc = "failed", !.transcript = transcript,
                    !.judge_calls = @ + 1]
    ELSE IF j = UseLLMJudge
    THEN [tk EXCEPT !.pc = "judge", !.transcript = transcript,
                    !.judge_calls = @ + 1, !.llm_calls = @ + 1]
    ELSE LET v == CustomJudge(transcript, j)
             w == [v EXCEPT !.was_escalated = TRUE,
                            !.primary_result = tk.primary,
                            !.debate_transcript = transcript,
                            !.total_cost_usd =
                                IF @ = NoneCost
                                THEN transcript.total_cost_usd ELSE @]
         IN [tk EXCEPT !.pc = "done", !.transcript = transcript,
                       !.judge_calls = @ + 1, !.judge_out = v,
                       !.verdict = w,
                       !.verdict_cb = IF cfg.on_verdict THEN Append(@, w) ELSE @]

\* the return of DebateEngine.debate to whoever awaited it
DebateReturn(tk, transcript, j) ==
    IF tk.caller = "engine"
    THEN [tk EXCEPT !.pc = "done", !.transcript = transcript]
    ELSE JuryAfterDebate(tk, transcript, j)

\* DebateEngine.debate from its entry to its first suspension point
DebateStart(tk, j) ==
    IF NP = 0
    THEN DebateReturn(tk, DebateTranscript(tk, <<>>, 0, 0, NoneRec), j)
    ELSE IF cfg.mode = "sequential"
    THEN [tk EXCEPT !.pc = "seq", !.responses = <<>>,
                    !.prompt = _build_persona_prompt(1, <<>>),
                    !.llm_calls = @ + 1]
    ELSE [tk EXCEPT !.pc = "round", !.stage = "first",
                    !.cur = [i \in PersonaIdx |-> Pending],
                    !.sem = Max(1, cfg.debate_concurrency)]

\* mutant: Stage 3 is skipped when the ceiling is reached
Stage3_inclusiveCeiling(tk, j) ==
    IF ~(cfg.max_debate_cost_usd # NoneCost
         /\ tk.total_cost >= cfg.max_debate_cost_usd)
    THEN [tk EXCEPT !.pc = "summary", !.llm_calls = @ + 1,
                    !.summary_calls = @ + 1]
    ELSE DebateReturn(tk, DebateTranscript(tk, tk.rounds, tk.total_tokens,
                                           tk.total_cost, NoneRec), j)

\* DebateEngine.debate, Stage 3 (lines 158-173); reached after the rounds
Stage3(tk, j) ==
    IF ~OverCeiling(tk.total_cost)
    THEN [tk EXCEPT !.pc = "summary", !.llm_calls = @ + 1,
                    !.summary_calls = @ + 1]
    ELSE DebateReturn(tk, DebateTranscript(tk, tk.rounds, tk.total_tokens,
                                           tk.total_cost, NoneRec), j)

\* a fresh parallel round (_run_round / _run_deliberation_round entry)
NewRound(tk, stage, iter) ==
    [tk EXCEPT !.pc = "round", !.stage = stage, !.iter = iter,
               !.cur = [i \in PersonaIdx |-> Pending],
               !.sem = Max(1, cfg.debate_concurrency)]

\* mutant: the ceiling is not tested after the first round
AfterRound_noFirstRoundCheck(tk0, responses, j) ==
    LET tk == [tk0 EXCEPT !.rounds = Append(@, responses),
                          !.total_tokens = @ + SumTokens(responses),
                          !.total_cost = @ + SumCost(responses)]
        loopEnd == Max(1, cfg.max_rounds)
    IN  IF cfg.mode \in {"independent", "adversarial"}
        THEN DebateReturn(tk, DebateTranscript(tk, tk.rounds, tk.total_tokens,
                                               tk.total_cost, NoneRec), j)
        ELSE IF tk.stage = "first"
        THEN IF 1 < loopEnd
             THEN NewRound(tk, "delib", 1)
             ELSE Stage3(tk, j)
        ELSE IF OverCeiling(tk.total_cost) THEN Stage3(tk, j)
        ELSE IF _consensus_reached(responses) THEN Stage3(tk, j)
        ELSE IF tk.iter + 1 < loopEnd THEN NewRound(tk, "delib", tk.iter + 1)
        ELSE Stage3(tk, j)

\* mutant: a unanimous deliberation round does not end the loop
AfterRound_noConsensusStop(tk0, responses, j) ==
    LET tk == [tk0 EXCEPT !.rounds = Append(@, responses),
                          !.total_tokens = @ + SumTokens(responses),
                          !.total_cost = @ + SumCost(responses)]
        loopEnd == Max(1, cfg.max_rounds)
    IN  IF cfg.mode \in {"independent", "adversarial"}
        THEN DebateReturn(tk, DebateTranscript(tk, tk.rounds, tk.total_tokens,
                                               tk.total_cost, NoneRec), j)
        ELSE IF tk.stage = "first"
        THEN IF OverCeiling(tk.total_cost)
             THEN DebateReturn(tk, DebateTranscript(tk, tk.rounds,
                                   tk.total_tokens, tk.total_cost, NoneRec), j)
             ELSE IF 1 < loopEnd
             THEN NewRound(tk, "delib", 1)
             ELSE Stage3(tk, j)
        ELSE IF OverCeiling(tk.total_cost) THEN Stage3(tk, j)
        ELSE IF tk.iter + 1 < loopEnd THEN NewRound(tk, "delib", tk.iter + 1)
        ELSE Stage3(tk, j)

\* mutant: the loop runs max_rounds deliberation rounds after the first
AfterRound_extraRound(tk0, responses, j) ==
    LET tk == [tk0 EXCEPT !.rounds = Append(@, responses),
                          !.total_tokens = @ + SumTokens(responses),
                          !.total_cost = @ + SumCost(responses)]
        loopEnd == Max(1, cfg.max_rounds) + 1
    IN  IF cfg.mode \in {"independent", "adversarial"}
        THEN DebateReturn(tk, DebateTranscript(tk, tk.rounds, tk.total_tokens,
                                               tk.total_cost, NoneRec), j)
        ELSE IF tk.stage = "first"
        THEN IF OverCeiling(tk.total_cost)
             THEN DebateReturn(tk, DebateTranscript(tk, tk.rounds,
                                   tk.total_tokens, tk.total_cost, NoneRec), j)
             ELSE IF 1 < loopEnd
             THEN NewRound(tk, "delib", 1)
             ELSE Stage3(tk, j)
        ELSE IF OverCeiling(tk.total_cost) THEN Stage3(tk, j)
        ELSE IF _consensus_reached(responses) THEN Stage3(tk, j)
        ELSE IF tk.iter + 1 < loopEnd THEN NewRound(tk, "delib", tk.iter + 1)
        ELSE Stage3(tk, j)

\* mutant: a unanimous first round goes straight to the summary
AfterRound_consensusAtFirst(tk0, responses, j) ==
    LET tk == [tk0 EXCEPT !.rounds = Append(@, responses),
                          !.total_tokens = @ + SumTokens(responses),
                          !.total_cost = @ + SumCost(responses)]
        loopEnd == Max(1, cfg.max_rounds)
    IN  IF cfg.mode \in {"independent", "adversarial"}
        THEN DebateReturn(tk, DebateTranscript(tk, tk.rounds, tk.total_tokens,
                                               tk.total_cost, NoneRec), j)
        ELSE IF tk.stage = "first"
        THEN IF OverCeiling(tk.total_cost)
             THEN DebateReturn(tk, DebateTranscript(tk, tk.rounds,
                                   tk.total_tokens, tk.total_cost, NoneRec), j)
             ELSE IF 1 < loopEnd /\ ~_consensus_reached(responses)
             THEN NewRound(tk, "delib", 1)
             ELSE Stage3(tk, j)
        ELSE IF OverCeiling(tk.total_cost) THEN Stage3(tk, j)
        ELSE IF _consensus_reached(responses) THEN Stage3(tk, j)
        ELSE IF tk.iter + 1 < loopEnd THEN NewRound(tk, "delib", tk.iter + 1)
        ELSE Stage3(tk, j)

\* DebateEngine.debate resumed with the gathered responses of a round
AfterRound(tk0, responses, j) ==
    LET tk == [tk0 EXCEPT !.rounds = Append(@, responses),
                          !.total_tokens = @ + SumTokens(responses),
                          !.total_cost = @ + SumCost(responses)]
        loopEnd == Max(1, cfg.max_rounds)   \* range(1, max(1, max_rounds))
    IN  IF cfg.mode \in {"independent", "adversarial"}
        THEN DebateReturn(tk, DebateTranscript(tk, tk.rounds, tk.total_tokens,
                                               tk.total_cost, NoneRec), j)
        ELSE IF tk.stage = "first"
        THEN IF OverCeiling(tk.total_cost)
             THEN DebateReturn(tk, DebateTranscript(tk, tk.rounds,
                                   tk.total_tokens, tk.total_cost, NoneRec), j)
             ELSE IF 1 < loopEnd
             THEN NewRound(tk, "delib", 1)
             ELSE Stage3(tk, j)
        ELSE IF OverCeiling(tk.total_cost) THEN Stage3(tk, j)
        ELSE IF _consensus_reached(responses) THEN Stage3(tk, j)
        ELSE IF tk.iter + 1 < loopEnd THEN NewRound(tk, "delib", tk.iter + 1)
        ELSE Stage3(tk, j)

\* mutant: the sequential round stops when the ceiling is reached
AfterSeqResponse_inclusiveCeiling(tk0, response, j) ==
    LET tk == [tk0 EXCEPT !.responses = Append(@, response),
                          !.total_tokens = @ + response.tokens_used,
                          !.total_cost = @ + response.cost_usd]
        k == Len(tk.responses)
        ret == [tk EXCEPT !.rounds = Append(@, tk.responses)]
    IN  IF (cfg.max_debate_cost_usd # NoneCost
            /\ tk.total_cost >= cfg.max_debate_cost_usd) \/ k >= NP
        THEN DebateReturn(ret, DebateTranscript(ret, ret.rounds,
                              ret.total_tokens, ret.total_cost, NoneRec), j)
        ELSE [tk EXCEPT !.prompt = _build_persona_prompt(k + 1, <<tk.responses>>),
                        !.llm_calls = @ + 1]

\* mutant: the next prompt is built from the responses before the append
AfterSeqResponse_stalePrompt(tk0, response, j) ==
    LET tk == [tk0 EXCEPT !.responses = Append(@, response),
                          !.total_tokens = @ + response.tokens_used,
                          !.total_cost = @ + response.cost_usd]
        k == Len(tk.responses)
        ret == [tk EXCEPT !.rounds = Append(@, tk.responses)]
    IN  IF OverCeiling(tk.total_cost) \/ k >= NP
        THEN DebateReturn(ret, DebateTranscript(ret, ret.rounds,
                              ret.total_tokens, ret.total_cost, NoneRec), j)
        ELSE [tk EXCEPT !.prompt = _build_persona_prompt(k + 1,
                            IF tk0.responses = <<>> THEN <<>>
                            ELSE <<tk0.responses>>),
                        !.llm_calls = @ + 1]

\* DebateEngine.debate, Sequential branch, resumed with one response
AfterSeqResponse(tk0, response, j) ==
    LET tk == [tk0 EXCEPT !.responses = Append(@, response),
                          !.total_tokens = @ + response.tokens_used,
                          !.total_cost = @ + response.cost_usd]
        k == Len(tk.responses)
        ret == [tk EXCEPT !.rounds = Append(@, tk.responses)]
    IN  IF OverCeiling(tk.total_cost) \/ k >= NP
        THEN DebateReturn(ret, DebateTranscript(ret, ret.rounds,
                              ret.total_tokens, ret.total_cost, NoneRec), j)
        ELSE [tk EXCEPT !.prompt = _build_persona_prompt(k + 1, <<tk.responses>>),
                        !.llm_calls = @ + 1]

\* mutant: the fast path does not count itself
StatsAfter_noFastPathCount(primary) ==
    LET should_escalate == _should_escalate(primary) /\ NP > 0
        s1 == [stats EXCEPT !.total = @ + 1]
    IN  IF ~should_escalate THEN s1
        ELSE [s1 EXCEPT !.escalated = @ + 1]

\* JuryStats after Jury.classify resumed with the primary result
\* (total += 1, then fast_path += 1 or escalated += 1, no await between)
StatsAfter(primary) ==
    LET should_escalate == _should_escalate(primary) /\ NP > 0
        s1 == [stats EXCEPT !.total = @ + 1]
    IN  IF ~should_escalate
        THEN [s1 EXCEPT !.fast_path = @ + 1]
        ELSE [s1 EXCEPT !.escalated = @ + 1]

\* self.on_escalation(text, primary): what the callback is given, and what
\* it finds when it runs (the escalated counter, the engine's calls so far)
OnEscalation(tk, primary, seen) ==
    [text |-> tk.text, primary |-> primary, escalated |-> seen.escalated,
     llm_calls |-> tk.llm_calls]

\* mutant: an empty persona list does not stop the escalation
AfterClassifier_noPersonaCheck(tk0, primary, j) ==
    LET tk == [tk0 EXCEPT !.primary = primary]
        should_escalate == _should_escalate(primary)
    IN  IF ~should_escalate
        THEN [tk EXCEPT !.pc = "done", !.verdict = FastPathVerdict(primary)]
        ELSE DebateStart([tk EXCEPT !.esc_cb =
                             IF cfg.on_escalation
                             THEN Append(@, OnEscalation(tk, primary,
                                                         StatsAfter(primary)))
                             ELSE @], j)

\* mutant: the callback runs before the call is counted as escalated
AfterClassifier_callbackFirst(tk0, primary, j) ==
    LET tk == [tk0 EXCEPT !.primary = primary]
        should_escalate == _should_escalate(primary) /\ NP > 0
    IN  IF ~should_escalate
        THEN [tk EXCEPT !.pc = "done", !.verdict = FastPathVerdict(primary)]
        ELSE DebateStart([tk EXCEPT !.esc_cb =
                             IF cfg.on_escalation
                             THEN Append(@, OnEscalation(tk, primary, stats))
                             ELSE @], j)

\* Jury.classify resumed with the primary result (lines 70-97); the
\* callback runs after `escalated += 1` and before debate is called
AfterClassifier(tk0, primary, j) ==
    LET tk == [tk0 EXCEPT !.primary = primary]
        should_escalate == _should_escalate(primary) /\ NP > 0
    IN  IF ~should_escalate
        THEN [tk EXCEPT !.pc = "done", !.verdict = FastPathVerdict(primary)]
        ELSE DebateStart([tk EXCEPT !.esc_cb =
                             IF cfg.on_escalation
                             THEN Append(@, OnEscalation(tk, primary,
                                                         StatsAfter(primary)))
                             ELSE @], j)

\* ------------------------------------------------------------------ steps
\* task t moves to `new`; leaving `async with sem` of classify_batch
\* releases the batch semaphore
Step(t, new) ==
    /\ tasks' = [tasks EXCEPT ![t] = new]
    /\ call' = IF ~Finished(tasks[t]) /\ Finished(new)
               THEN [call EXCEPT !.sem = IF call.kind = "batch" THEN @ + 1 ELSE @,
                                 !.completed = Append(@, t)]
               ELSE call

Results == [label : LabelSet, confidence : Confs, cost_usd : PrimaryCosts]
\* the summary completion answers with text
SummaryPayloads == {[p EXCEPT !.content = SummaryText] : p \in cfg.payloads}
PrimaryOf(r, text) ==
    [label |-> r.label, confidence |-> r.confidence, cost_usd |-> r.cost_usd,
     text |-> text]

Quiescent == \A t \in Items : Finished(tasks[t])
CanCall == call.status # "running" /\ Quiescent /\ ncalls < cfg.calls

\* await jury.classify(text)
CallClassify ==
    /\ CanCall
    /\ ncalls' = ncalls + 1
    /\ call' = [kind |-> "classify", n |-> 1, concurrency |-> NoneCost,
                sem |-> 0, status |-> "running",
                result |-> <<>>, completed |-> <<>>, log |-> call.log]
    /\ tasks' = [t \in Items |->
                    IF t = 1 THEN [IdleTask EXCEPT !.pc = "classifier",
                                       !.caller = "jury", !.text = 1]
                    ELSE IdleTask]
    /\ UNCHANGED <<cfg, stats>>

\* mutant: the semaphore is built from the concurrency argument as given
CallBatch_rawConcurrency ==
    /\ CanCall
    /\ \E n \in 0..MaxItems, concurrency \in (0 - 1)..MaxItems :
        /\ call' = [kind |-> "batch", n |-> n, concurrency |-> concurrency,
                    sem |-> concurrency,
                    status |-> "running", result |-> <<>>,
                    completed |-> <<>>, log |-> call.log]
        /\ tasks' = [t \in Items |->
                        IF t <= n THEN [IdleTask EXCEPT !.pc = "queued",
                                           !.caller = "jury", !.text = t]
                        ELSE IdleTask]
    /\ ncalls' = ncalls + 1
    /\ UNCHANGED <<cfg, stats>>

\* await jury.classify_batch(texts, concurrency): gather() schedules one
\* _classify task per text
CallBatch ==
    /\ CanCall
    /\ \E n \in 0..MaxItems, concurrency \in (0 - 1)..MaxItems :
        /\ call' = [kind |-> "batch", n |-> n, concurrency |-> concurrency,
                    sem |-> Max(1, concurrency),
                    status |-> "running", result |-> <<>>,
                    completed |-> <<>>, log |-> call.log]
        /\ tasks' = [t \in Items |->
                        IF t <= n THEN [IdleTask EXCEPT !.pc = "queued",
                                           !.caller = "jury", !.text = t]
                        ELSE IdleTask]
    /\ ncalls' = ncalls + 1
    /\ UNCHANGED <<cfg, stats>>

\* await engine.debate(text, primary_result, labels, max_cost_usd)
CallDebate ==
    /\ CanCall
    /\ \E r \in cfg.results :
        /\ tasks' = [t \in Items |->
                        IF t = 1
                        THEN DebateStart([IdleTask EXCEPT !.caller = "engine",
                                 !.text = 1, !.primary = PrimaryOf(r, 1)],
                                 JudgeRaises)
                        ELSE IdleTask]
    /\ call' = [kind |-> "debate", n |-> 1, concurrency |-> NoneCost,
                sem |-> 0, status |-> "running",
                result |-> <<>>, completed |-> <<>>, log |-> call.log]
    /\ ncalls' = ncalls + 1
    /\ UNCHANGED <<cfg, stats>>

\* await judge.judge(transcript, labels) of a vote strategy: the coroutine
\* has no suspension point, it runs to its return or to its exception
CallJudge ==
    /\ CanCall
    /\ \E r \in cfg.results, rounds \in JudgeRounds, j \in cfg.judge_choices :
        LET tk == [IdleTask EXCEPT !.caller = "judge", !.text = 1,
                       !.primary = PrimaryOf(r, 1), !.judge_calls = 1]
            transcript == DebateTranscript(tk, rounds, 0, 0, NoneRec)
            v == VoteJudge(j, transcript, cfg.labels)
        IN  tasks' = [t \in Items |->
                        IF t # 1 THEN IdleTask
                        ELSE IF IsRaised(v)
                        THEN [tk EXCEPT !.pc = "failed",
                                 !.transcript = transcript,
                                 !.parse_error = v.raised]
                        ELSE [tk EXCEPT !.pc = "done",
                                 !.transcript = transcript,
                                 !.judge_out = v, !.verdict = v]]
    /\ call' = [kind |-> "judge", n |-> 1, concurrency |-> NoneCost,
                sem |-> 0, status |-> "running",
                result |-> <<>>, completed |-> <<1>>, log |-> call.log]
    /\ ncalls' = ncalls + 1
    /\ UNCHANGED <<cfg, stats>>

\* ------------------------------------------------- calibration/optimizer.py
\* the sweep over the candidates: `if total_cost < best_cost` keeps the
\* earlier candidate on a tie; the index of best_threshold after the first
\* k candidates (any cost is below the initial float("inf"))
RECURSIVE BestOf(_, _)
BestOf(costs, k) ==
    IF k <= 1 THEN 1
    ELSE LET best == BestOf(costs, k - 1)
         IN  IF costs[k] < costs[best] THEN k ELSE best

\* mutant: the last candidate of least cost is kept (`<=`)
CalibrateSweep_lastWins(tk) ==
    LET args == tk.prompt
        candidates == args.candidates
        cost(threshold) ==
            LET escalated == {k \in 1..Len(tk.responses) :
                    tk.responses[k].confidence * ThresholdDen
                        < threshold * MaxConf}
                errors == {k \in 1..Len(tk.responses) :
                    /\ k \notin escalated
                    /\ tk.responses[k].label # args.labels[k]}
            IN  Cardinality(errors) * args.error_cost
                  + Cardinality(escalated) * args.escalation_cost
        costs == [i \in 1..Len(candidates) |-> cost(candidates[i])]
        best == CHOOSE i \in 1..Len(candidates) :
                    \A j \in 1..Len(candidates) :
                        /\ costs[i] <= costs[j]
                        /\ j > i => costs[i] < costs[j]
    IN  [tk EXCEPT !.pc = "done",
                   !.verdict = [threshold |-> candidates[best]]]

\* calibrate after the last classification (lines 49-87): the cost of every
\* candidate over the cached results, in units of escalation cost steps;
\* a confidence c/MaxConf is below a threshold x/ThresholdDen iff
\* c * ThresholdDen < x * MaxConf
CalibrateSweep(tk) ==
    LET args == tk.prompt
        candidates == args.candidates
        cost(threshold) ==
            LET escalated == {k \in 1..Len(tk.responses) :
                    tk.responses[k].confidence * ThresholdDen
                        < threshold * MaxConf}
                errors == {k \in 1..Len(tk.responses) :
                    /\ k \notin escalated
                    /\ tk.responses[k].label # args.labels[k]}
            IN  Cardinality(errors) * args.error_cost
                  + Cardinality(escalated) * args.escalation_cost
        costs == [i \in 1..Len(candidates) |-> cost(candidates[i])]
    IN  [tk EXCEPT !.pc = "done",
                   !.verdict = [threshold |->
                       candidates[BestOf(costs, Len(candidates))]]]

\* await calibrator.calibrate(texts, labels, error_cost, escalation_cost,
\* thresholds): the length check, `thresholds or <the ten defaults>`, and
\* the first classifier call; without texts the sweep runs at once
CallCalibrate ==
    /\ CanCall
    /\ \E n \in 0..MaxItems, labels \in UNION {[1..m -> LabelSet] : m \in 0..MaxItems}, costs \in {0, 1, 200} \X {0, 1}, thresholds \in UNION {[1..m -> {0, 60, 100}] : m \in 0..MaxItems} :
        LET candidates == IF thresholds # <<>> THEN thresholds
                          ELSE [i \in 1..10 |-> 45 + 5 * i]
            tk == [IdleTask EXCEPT !.caller = "calibrator",
                      !.prompt = [texts |-> n, labels |-> labels,
                                  error_cost |-> costs[1],
                                  escalation_cost |-> costs[2],
                                  candidates |-> candidates]]
            new == IF n # Len(labels)
                   THEN [tk EXCEPT !.pc = "failed",
                                   !.parse_error = "ValueError"]
                   ELSE IF n = 0 THEN CalibrateSweep(tk)
                   ELSE [tk EXCEPT !.pc = "classifier", !.text = 1]
        IN  /\ tasks' = [t \in Items |-> IF t = 1 THEN new ELSE IdleTask]
            /\ cfg' = IF new.pc = "done"
                      THEN [cfg EXCEPT !.threshold = new.verdict.threshold]
                      ELSE cfg
    /\ call' = [kind |-> "calibrate", n |-> 1, concurrency |-> NoneCost,
                sem |-> 0, status |-> "running",
                result |-> <<>>, completed |-> <<>>, log |-> call.log]
    /\ ncalls' = ncalls + 1
    /\ UNCHANGED stats

\* the classifier returns the result of the text in turn: the next text is
\* classified, or the sweep runs and sets the Jury's threshold
CalibrateClassified(t) ==
    /\ tasks[t].caller = "calibrator" /\ tasks[t].pc = "classifier"
    /\ \E r \in cfg.results :
        LET tk == [tasks[t] EXCEPT
                      !.responses = Append(@, PrimaryOf(r, tasks[t].text))]
            new == IF Len(tk.responses) < tk.prompt.texts
                   THEN [tk EXCEPT !.text = @ + 1]
                   ELSE CalibrateSweep(tk)
        IN  /\ Step(t, new)
            /\ cfg' = IF new.pc = "done"
                      THEN [cfg EXCEPT !.threshold = new.verdict.threshold]
                      ELSE cfg
    /\ UNCHANGED <<stats, ncalls>>

\* ------------------------------------------------------------ llm/client.py
\* await LiteLLMClient().complete(...): the first attempt issues its request
CallComplete ==
    /\ CanCall
    /\ tasks' = [t \in Items |->
                    IF t = 1 THEN [IdleTask EXCEPT !.pc = "request",
                                      !.caller = "client", !.text = 1,
                                      !.iter = 1, !.llm_calls = 1]
                    ELSE IdleTask]
    /\ call' = [kind |-> "complete", n |-> 1, concurrency |-> NoneCost,
                sem |-> 0, status |-> "running",
                result |-> <<>>, completed |-> <<>>, log |-> call.log]
    /\ ncalls' = ncalls + 1
    /\ UNCHANGED <<cfg, stats>>

\* acompletion answers: complete returns the payload (no further attempt);
\* `responses` logs how each attempt ended, `verdict` holds the value the
\* coroutine returns
AttemptReturns(t) ==
    /\ tasks[t].pc = "request"
    /\ \E payload \in cfg.payloads :
        Step(t, [tasks[t] EXCEPT !.pc = "done", !.verdict = payload,
                    !.responses = Append(@, "ok")])
    /\ UNCHANGED <<cfg, stats, ncalls>>

\* mutant: every failure is retried
RetryDecision_anyError(attempt, type) ==
    attempt < MaxAttempts

\* the retry decorator: retry_if_exception_type((ConnectionError,
\* TimeoutError, OSError)), by isinstance, and stop_after_attempt(3)
RetryDecision(attempt, type) ==
    /\ type \in {"ConnectionError", "TimeoutError", "OSError",
                  "FileNotFoundError"}
    /\ attempt < MaxAttempts

\* the attempt raises: the litellm import fails (RuntimeError), the
\* transport fails, or the service rejects the request (APIError); the
\* decorator sleeps before a new attempt or re-raises (reraise=True)
AttemptFails(t) ==
    /\ tasks[t].pc = "request"
    /\ \E type \in {"ConnectionError", "TimeoutError", "OSError",
                     "FileNotFoundError", "RuntimeError", "APIError"} :
        IF RetryDecision(tasks[t].iter, type)
        THEN Step(t, [tasks[t] EXCEPT !.pc = "backoff",
                         !.responses = Append(@, type)])
        ELSE Step(t, [tasks[t] EXCEPT !.pc = "failed",
                         !.parse_error = type,
                         !.responses = Append(@, type)])
    /\ UNCHANGED <<cfg, stats, ncalls>>

\* wait_exponential has elapsed: the next attempt issues its request
BackoffEnds(t) ==
    /\ tasks[t].pc = "backoff"
    /\ Step(t, [tasks[t] EXCEPT !.pc = "request", !.iter = @ + 1,
                    !.llm_calls = @ + 1])
    /\ UNCHANGED <<cfg, stats, ncalls>>

\* mutant: every task of the batch starts at once
Admit_unbounded(t) ==
    /\ tasks[t].pc = "queued"
    /\ call' = [call EXCEPT !.sem = @ - 1]
    /\ tasks' = [tasks EXCEPT ![t].pc = "classifier"]
    /\ UNCHANGED <<cfg, stats, ncalls>>

\* _classify: `async with sem` admits the task, which calls classify and
\* suspends in the primary classifier
Admit(t) ==
    /\ tasks[t].pc = "queued"
    /\ call.sem > 0
    /\ call' = [call EXCEPT !.sem = @ - 1]
    /\ tasks' = [tasks EXCEPT ![t].pc = "classifier"]
    /\ UNCHANGED <<cfg, stats, ncalls>>

\* the primary classifier returns; classify runs on to its next suspension
ClassifierReturns(t) ==
    /\ tasks[t].pc = "classifier"
    /\ \E r \in cfg.results, j \in cfg.judge_choices :
        LET primary == PrimaryOf(r, tasks[t].text)
        IN  /\ stats' = StatsAfter(primary)
            /\ Step(t, AfterClassifier(tasks[t], primary, j))
    /\ UNCHANGED <<cfg, ncalls>>

\* the primary classifier raises
ClassifierFails(t) ==
    /\ tasks[t].pc = "classifier"
    /\ Step(t, [tasks[t] EXCEPT !.pc = "failed"])
    /\ UNCHANGED <<cfg, stats, ncalls>>

\* Sequential mode: the completion of the persona being queried returns
SeqReturns(t) ==
    /\ tasks[t].pc = "seq"
    /\ \E payload \in cfg.payloads, j \in cfg.judge_choices :
        LET k == Len(tasks[t].responses) + 1
            response == _call_persona(cfg.personas[k], payload)
        IN  IF IsRaised(response)
            THEN Step(t, [tasks[t] EXCEPT !.pc = "failed",
                                          !.parse_error = response.raised])
            ELSE Step(t, AfterSeqResponse(tasks[t], response, j))
    /\ UNCHANGED <<cfg, stats, ncalls>>

\* Sequential mode: the completion raises (retries exhausted)
SeqFails(t) ==
    /\ tasks[t].pc = "seq"
    /\ Step(t, [tasks[t] EXCEPT !.pc = "failed"])
    /\ UNCHANGED <<cfg, stats, ncalls>>

\* mutant: the queries of a round do not wait for the semaphore
PersonaStart_noSemaphore(t, i) ==
    /\ tasks[t].pc \in {"round", "failed"}
    /\ i \in DOMAIN tasks[t].cur
    /\ tasks[t].cur[i].st = "pending"
    /\ LET tk == tasks[t]
           prompt == IF tk.stage = "delib"
                     THEN _build_deliberation_prompt(i, tk.rounds)
                     ELSE _build_persona_prompt(i, <<>>)
       IN  tasks' = [tasks EXCEPT ![t] =
                [tk EXCEPT !.sem = @ - 1, !.llm_calls = @ + 1,
                           !.cur[i] = [st |-> "inflight", prompt |-> prompt,
                                       response |-> NoneRec, arrived |-> 0]]]
    /\ UNCHANGED <<cfg, stats, call, ncalls>>

\* parallel round: _wrapped(persona) enters `async with sem`, builds its
\* prompt and issues its completion
PersonaStart(t, i) ==
    /\ tasks[t].pc \in {"round", "failed"}
    /\ i \in DOMAIN tasks[t].cur
    /\ tasks[t].cur[i].st = "pending"
    /\ tasks[t].sem > 0
    /\ LET tk == tasks[t]
           prompt == IF tk.stage = "delib"
                     THEN _build_deliberation_prompt(i, tk.rounds)
                     ELSE _build_persona_prompt(i, <<>>)
       IN  tasks' = [tasks EXCEPT ![t] =
                [tk EXCEPT !.sem = @ - 1, !.llm_calls = @ + 1,
                           !.cur[i] = [st |-> "inflight", prompt |-> prompt,
                                       response |-> NoneRec, arrived |-> 0]]]
    /\ UNCHANGED <<cfg, stats, call, ncalls>>

\* parallel round: one completion returns (`arrived`: as the how-manieth of
\* its round), _wrapped leaves the semaphore
\* with its response, or with the exception the parsing raised (which
\* gather re-raises into debate and classify)
PersonaReturns(t, i) ==
    /\ tasks[t].pc \in {"round", "failed"}
    /\ i \in DOMAIN tasks[t].cur
    /\ tasks[t].cur[i].st = "inflight"
    /\ \E payload \in cfg.payloads :
        LET response == _call_persona(cfg.personas[i], payload)
        IN  IF IsRaised(response)
            THEN Step(t, [tasks[t] EXCEPT !.sem = @ + 1, !.pc = "failed",
                            !.parse_error = IF @ = NoneVal
                                            THEN response.raised ELSE @,
                            !.cur[i] = [st |-> "failed", prompt |-> @.prompt,
                                        response |-> NoneRec, arrived |-> 0]])
            ELSE /\ tasks' = [tasks EXCEPT ![t] =
                        [tasks[t] EXCEPT !.sem = @ + 1,
                            !.cur[i] = [st |-> "done", prompt |-> @.prompt,
                                        response |-> response,
                                        arrived |-> 1 + Cardinality(
                                            {k \in PersonaIdx :
                                                tasks[t].cur[k].st = "done"})]]]
                 /\ call' = call
    /\ UNCHANGED <<cfg, stats, ncalls>>

\* parallel round: one completion raises; gather re-raises it into debate
\* and classify, the sibling queries are not cancelled
PersonaFails(t, i) ==
    /\ tasks[t].pc \in {"round", "failed"}
    /\ i \in DOMAIN tasks[t].cur
    /\ tasks[t].cur[i].st = "inflight"
    /\ Step(t, [tasks[t] EXCEPT !.sem = @ + 1, !.pc = "failed",
                    !.cur[i] = [st |-> "failed", prompt |-> @.prompt,
                                response |-> NoneRec, arrived |-> 0]])
    /\ UNCHANGED <<cfg, stats, ncalls>>

\* mutant: the responses of a round are listed as they arrived
RoundComplete_arrivalOrder(t) ==
    /\ tasks[t].pc = "round"
    /\ \A i \in PersonaIdx : tasks[t].cur[i].st = "done"
    /\ \E j \in cfg.judge_choices :
        LET responses == [k \in PersonaIdx |->
                tasks[t].cur[CHOOSE i \in PersonaIdx :
                                 tasks[t].cur[i].arrived = k].response]
        IN  Step(t, AfterRound(tasks[t], responses, j))
    /\ UNCHANGED <<cfg, stats, ncalls>>

\* mutant: the round ends with the first response that arrives
RoundComplete_firstDone(t) ==
    /\ tasks[t].pc = "round"
    /\ \E i \in PersonaIdx : tasks[t].cur[i].st = "done"
    /\ \E j \in cfg.judge_choices :
        LET first == CHOOSE i \in PersonaIdx : tasks[t].cur[i].st = "done"
            responses == <<tasks[t].cur[first].response>>
        IN  Step(t, AfterRound(tasks[t], responses, j))
    /\ UNCHANGED <<cfg, stats, ncalls>>

\* parallel round: gather returns the responses in persona list order
RoundComplete(t) ==
    /\ tasks[t].pc = "round"
    /\ \A i \in PersonaIdx : tasks[t].cur[i].st = "done"
    /\ \E j \in cfg.judge_choices :
        LET responses == [i \in PersonaIdx |-> tasks[t].cur[i].response]
        IN  Step(t, AfterRound(tasks[t], responses, j))
    /\ UNCHANGED <<cfg, stats, ncalls>>

\* mutant: the usage of the summary call is not added to the totals
SummaryReturns_noUsage(t) ==
    /\ tasks[t].pc = "summary"
    /\ \E payload \in SummaryPayloads, j \in cfg.judge_choices :
        LET tk == [tasks[t] EXCEPT !.summary = payload.content]
        IN  Step(t, DebateReturn(tk, DebateTranscript(tk, tk.rounds,
                        tk.total_tokens, tk.total_cost, tk.summary), j))
    /\ UNCHANGED <<cfg, stats, ncalls>>

\* Deliberation: the summary completion returns (_summarise, lines 290-293)
SummaryReturns(t) ==
    /\ tasks[t].pc = "summary"
    /\ \E payload \in SummaryPayloads, j \in cfg.judge_choices :
        LET tk == [tasks[t] EXCEPT !.summary = payload.content,
                       !.total_tokens = @ + payload.tokens,
                       !.total_cost = @ + CostOr0(payload.cost_usd)]
        IN  Step(t, DebateReturn(tk, DebateTranscript(tk, tk.rounds,
                        tk.total_tokens, tk.total_cost, tk.summary), j))
    /\ UNCHANGED <<cfg, stats, ncalls>>

\* Deliberation: the summary completion raises
SummaryFails(t) ==
    /\ tasks[t].pc = "summary"
    /\ Step(t, [tasks[t] EXCEPT !.pc = "failed"])
    /\ UNCHANGED <<cfg, stats, ncalls>>

\* LLMJudge: the judge's completion returns; judge and classify run on to
\* the return of classify, or to the exception the parsing raised
JudgeReturns(t) ==
    /\ tasks[t].pc = "judge"
    /\ \E payload \in cfg.payloads :
        LET v == LLMJudge(tasks[t].transcript, payload)
        IN  IF IsRaised(v)
            THEN Step(t, [tasks[t] EXCEPT !.pc = "failed",
                                          !.parse_error = v.raised])
            ELSE Step(t, AfterJudge(tasks[t], v))
    /\ UNCHANGED <<cfg, stats, ncalls>>

\* LLMJudge: the judge's completion raises
JudgeFails(t) ==
    /\ tasks[t].pc = "judge"
    /\ Step(t, [tasks[t] EXCEPT !.pc = "failed"])
    /\ UNCHANGED <<cfg, stats, ncalls>>

\* mutant: results are collected in completion order
Gather_completionOrder(n) ==
    [k \in 1..n |-> IF call.kind = "debate"
                    THEN tasks[call.completed[k]].transcript
                    ELSE tasks[call.completed[k]].verdict]

\* asyncio.gather: the i-th result is the value of the i-th awaitable
Gather(n) ==
    [t \in 1..n |-> IF call.kind = "debate" THEN tasks[t].transcript
                    ELSE tasks[t].verdict]

\* mutant: gather hands back what the tasks ended with, failed or not
Return_partial ==
    /\ call.status = "running"
    /\ \A t \in 1..call.n : Finished(tasks[t]) /\ tasks[t].pc # "idle"
    /\ call' = [call EXCEPT !.status = "returned", !.result = Gather(call.n)]
    /\ UNCHANGED <<cfg, stats, tasks, ncalls>>

\* the awaited call returns to its caller; gather returns the results of
\* its awaitables in the order they were passed
\* (call.log: what the callers of classify and classify_batch have been
\* handed so far, verdicts by was_escalated and texts, and the calls that
\* raised)
Return ==
    /\ call.status = "running"
    /\ \A t \in 1..call.n : tasks[t].pc = "done"
    /\ LET escalated == IF call.kind \in {"classify", "batch"}
                        THEN {t \in 1..call.n : tasks[t].verdict.was_escalated}
                        ELSE {}
           texts == IF call.kind \in {"classify", "batch"} THEN call.n ELSE 0
       IN  call' = [call EXCEPT !.status = "returned",
                       !.result = Gather(call.n),
                       !.log.escalated = @ + Cardinality(escalated),
                       !.log.fast_path = @ + texts - Cardinality(escalated),
                       !.log.texts = @ + texts]
    /\ UNCHANGED <<cfg, stats, tasks, ncalls>>

\* the awaited call raises: gather re-raises the first failure
Raise ==
    /\ call.status = "running"
    /\ \E t \in 1..call.n : tasks[t].pc = "failed"
    /\ call' = [call EXCEPT !.status = "raised", !.log.raised = @ + 1]
    /\ UNCHANGED <<cfg, stats, tasks, ncalls>>

\* --------------------------------------------------------- configurations
PersonaLists == {SubSeq(PersonaNames, 1, n) : n \in 0..MaxPersonas}
NoOverride == [on |-> FALSE, yes |-> {}]
\* an override predicate is given by the confidences it answers True for:
\* never, always, and only for a fully confident result
Overrides == {NoOverride} \cup
             {[on |-> TRUE, yes |-> s] : s \in {{}, Confs, {MaxConf}}}
Ceilings == {NoneCost} \cup (0..MaxCeiling)

\* the collaborators: what the primary classifier, the completion service
\* and the judge strategy can answer
Env(results, payloads, judge_choices, calls) ==
    [results |-> results, payloads |-> payloads,
     judge_choices |-> judge_choices, calls |-> calls]

Cfgs(personaLists, thresholds, overrides, ceilings, modes, maxRounds, concurrencies, callbacks, env) ==
    {[personas |-> p, threshold |-> th, escalation_override |-> ov,
      max_debate_cost_usd |-> ce, mode |-> mo, max_rounds |-> mr,
      debate_concurrency |-> co, on_escalation |-> cb, on_verdict |-> cb,
      labels |-> Labels,
      results |-> env.results, payloads |-> env.payloads,
      judge_choices |-> env.judge_choices, calls |-> env.calls] :
        p \in personaLists, th \in thresholds, ov \in overrides,
        ce \in ceilings, mo \in modes, mr \in maxRounds,
        co \in concurrencies, cb \in callbacks}

InitWith(cfgs) ==
    /\ cfg \in cfgs
    /\ stats = [total |-> 0, fast_path |-> 0, escalated |-> 0]
    /\ call = [kind |-> "none", n |-> 0, concurrency |-> NoneCost, sem |-> 0,
               status |-> "none", result |-> <<>>, completed |-> <<>>,
               log |-> [escalated |-> 0, fast_path |-> 0, texts |-> 0,
                        raised |-> 0]]
    /\ tasks = [t \in Items |-> IdleTask]
    /\ ncalls = 0

DebateSteps ==
    \E t \in Items :
        \/ SeqReturns(t)
        \/ SeqFails(t)
        \/ \E i \in PersonaIdx : PersonaStart(t, i)
        \/ \E i \in PersonaIdx : PersonaReturns(t, i)
        \/ \E i \in PersonaIdx : PersonaFails(t, i)
        \/ RoundComplete(t)
        \/ SummaryReturns(t)
        \/ SummaryFails(t)

\* Jury.classify, one call after the other
JuryPersonaLists == {SubSeq(PersonaNames, 1, n) : n \in 0..MaxJuryPersonas}
\* a Sequential panel has one persona more, so that the cost ceiling can cut
\* its round short
Init ==
    LET env == Env(Results, PayloadsOf(ObjectContents, ReplyCosts),
                   JudgeChoices, MaxSingleCalls)
    IN  InitWith(
            Cfgs(JuryPersonaLists, Confs, Overrides, Ceilings, Modes,
                 {2}, {5}, {TRUE}, env)
            \cup
            Cfgs({SubSeq(PersonaNames, 1, MaxJuryPersonas + 1)}, {1},
                 {NoOverride}, Ceilings, {"sequential"}, {2}, {5}, {TRUE},
                 env))
Next ==
    \/ CallClassify
    \/ \E t \in Items : ClassifierReturns(t)
    \/ \E t \in Items : ClassifierFails(t)
    \/ DebateSteps
    \/ Return
    \/ Raise
Spec == Init /\ [][Next]_vars

\* DebateEngine.debate called directly
\* persona lists and completions of the Deliberation configurations
DelibPersonaLists == {SubSeq(PersonaNames, 1, n) : n \in 0..MaxDelibPersonas}
DelibPayloads ==
    {p \in PayloadsOf(ObjectContents, ReplyCosts) :
        p.content.label = Labels[1] => p.cost_usd = NoneCost}
\* the concurrency argument of the engine: none in flight allowed, fewer
\* than the personas, and the default
RoundConcurrencies == {0, 2, 5}
DebatePrimary == {[label |-> "safe", confidence |-> 0, cost_usd |-> NoneCost]}
InitDebate ==
    InitWith(
        Cfgs(PersonaLists, {0}, {NoOverride}, Ceilings,
             Modes \ {"deliberation"}, {2}, RoundConcurrencies, {FALSE},
             Env(DebatePrimary, PayloadsOf(ObjectContents, ReplyCosts),
                 {JudgeRaises}, MaxSingleCalls))
        \cup
        Cfgs(DelibPersonaLists, {0}, {NoOverride}, Ceilings,
             {"deliberation"}, 0..MaxRoundsCfg, RoundConcurrencies, {FALSE},
             Env(DebatePrimary, DelibPayloads, {JudgeRaises},
                 MaxSingleCalls))
        \cup
        \* a list that holds the same persona record twice
        Cfgs({<<PersonaNames[1], PersonaNames[1]>>}, {0}, {NoOverride},
             {NoneCost}, {"adversarial"}, {2}, RoundConcurrencies, {FALSE},
             Env(DebatePrimary, PayloadsOf(ObjectContents, ReplyCosts),
                 {JudgeRaises}, MaxSingleCalls)))
NextDebate ==
    \/ CallDebate
    \/ DebateSteps
    \/ Return
    \/ Raise
SpecDebate == InitDebate /\ [][NextDebate]_vars

\* DebateEngine.debate when every completion call returns: max_rounds from
\* -1 on, and the steps of the event loop taken as long as one is ready
InitDebateLive ==
    InitWith(
        Cfgs(PersonaLists, {0}, {NoOverride}, {NoneCost, 1},
             Modes \ {"deliberation"}, {2}, {0, 2}, {FALSE},
             Env(DebatePrimary, PayloadsOf(ObjectContents, ReplyCosts),
                 {JudgeRaises}, MaxSingleCalls))
        \cup
        Cfgs(DelibPersonaLists, {0}, {NoOverride}, {NoneCost, 1, MaxCeiling},
             {"deliberation"}, (0 - 1)..MaxRoundsCfg, {0, 2}, {FALSE},
             Env(DebatePrimary, DelibPayloads, {JudgeRaises},
                 MaxSingleCalls)))
NextDebateLive ==
    \/ CallDebate
    \/ \E t \in Items : SeqReturns(t)
    \/ \E t \in Items, i \in PersonaIdx : PersonaStart(t, i)
    \/ \E t \in Items, i \in PersonaIdx : PersonaReturns(t, i)
    \/ \E t \in Items : RoundComplete(t)
    \/ \E t \in Items : SummaryReturns(t)
    \/ Return
SpecDebateLive ==
    /\ InitDebateLive /\ [][NextDebateLive]_vars
    /\ WF_vars(NextDebateLive /\ call.status = "running")

\* Jury.classify_batch and Jury.classify
\* the batch configurations: a confident "safe" or an unsure "unsafe"
\* primary result, completions that all cost one unit
BatchResults ==
    {[label |-> "safe", confidence |-> MaxConf, cost_usd |-> NoneCost],
     [label |-> "unsafe", confidence |-> 0, cost_usd |-> NoneCost]}
InitBatch == InitWith(Cfgs({<<>>, <<"A">>}, {1}, {NoOverride},
                           {NoneCost, 0}, {"sequential", "deliberation"},
                           {1}, {5}, {TRUE},
                           Env(BatchResults,
                               PayloadsOf({[label |-> "unsafe",
                                            confidence |-> JsonNum(MaxConf)]},
                                          {1}),
                               {JudgeRaises,
                                [label |-> "unsafe", honest |-> TRUE,
                                 total_cost_usd |-> NoneCost]},
                               MaxCalls)))
NextBatch ==
    \/ CallBatch
    \/ CallClassify
    \/ \E t \in Items : Admit(t)
    \/ \E t \in Items : ClassifierReturns(t)
    \/ \E t \in Items : ClassifierFails(t)
    \/ DebateSteps
    \/ Return
    \/ Raise
SpecBatch == InitBatch /\ [][NextBatch]_vars

\* Jury.classify_batch when every classifier, completion and judge call
\* returns: a Jury built with debate_concurrency -1, 0 or 2, whose engine
\* runs parallel rounds of two personas
InitBatchLive ==
    InitWith(Cfgs({<<>>, SubSeq(PersonaNames, 1, 2)}, {1}, {NoOverride},
                  {NoneCost}, {"independent", "deliberation"}, {2},
                  {0 - 1, 0, 2}, {FALSE},
                  Env(BatchResults,
                      PayloadsOf({[label |-> "unsafe",
                                   confidence |-> JsonNum(MaxConf)]}, {1}),
                      {[label |-> "unsafe", honest |-> TRUE,
                        total_cost_usd |-> NoneCost]},
                      MaxSingleCalls)))
NextBatchLive ==
    \/ CallBatch
    \/ \E t \in Items : Admit(t)
    \/ \E t \in Items : ClassifierReturns(t)
    \/ \E t \in Items, i \in PersonaIdx : PersonaStart(t, i)
    \/ \E t \in Items, i \in PersonaIdx : PersonaReturns(t, i)
    \/ \E t \in Items : RoundComplete(t)
    \/ \E t \in Items : SummaryReturns(t)
    \/ Return
SpecBatchLive ==
    /\ InitBatchLive /\ [][NextBatchLive]_vars
    /\ WF_vars(NextBatchLive /\ call.status = "running")

\* Jury.classify with an LLMJudge and a completion service that answers
\* with well-formed and with malformed contents
LongText == [text |-> "long", len |-> TruncLen + 1]
NotObject == [json |-> "array", len |-> 6]
Fenced(body) == [fence |-> 12, body |-> body]
\* JSON objects: a well-formed one, bare and fenced; objects with missing
\* fields; objects whose confidence is a number out of range, a string that
\* spells a number, another string, or null; objects whose key_factors is
\* a list, a string, a number, or null
ObjectVariants ==
    {[label |-> "unsafe", confidence |-> JsonNum(1)],
     Fenced([label |-> "unsafe", confidence |-> JsonNum(1)]),
     [other |-> TRUE], [label |-> "unsafe"], [confidence |-> JsonNum(MaxConf)]}
    \cup {[label |-> "unsafe", confidence |-> c] :
            c \in {JsonNum(MaxConf + 1), JsonNumStr(1), [str |-> "high"],
                   JsonNull}}
    \cup {[label |-> "unsafe", confidence |-> JsonNum(1), key_factors |-> k] :
            k \in {[list |-> <<"f">>], [chars |-> <<"a", "b">>], JsonNum(5),
                   JsonNull}}
NonObjectContents ==
    {NotJson, LongText, NotObject, Fenced(NotJson), Fenced(LongText),
     Fenced(NotObject)}
MalformedContents == NonObjectContents \cup ObjectVariants
UnsureResult == {[label |-> "safe", confidence |-> 0, cost_usd |-> NoneCost]}
InitMalformed ==
    InitWith({[c EXCEPT !.labels = l] :
        c \in Cfgs({<<"A">>}, {1}, {NoOverride}, {NoneCost}, Modes, {2}, {5},
                   {TRUE},
                   Env(UnsureResult, PayloadsOf(MalformedContents, {1}),
                       {UseLLMJudge}, MaxSingleCalls)),
        l \in {Labels, <<>>}})
NextMalformed ==
    \/ CallClassify
    \/ \E t \in Items : ClassifierReturns(t)
    \/ \E t \in Items : ClassifierFails(t)
    \/ DebateSteps
    \/ \E t \in Items : JudgeReturns(t)
    \/ \E t \in Items : JudgeFails(t)
    \/ Return
    \/ Raise
SpecMalformed == InitMalformed /\ [][NextMalformed]_vars

\* a vote strategy called with a transcript
\* prior tables: none; a row for the first persona only, holding a zero;
\* that row with one entry missing; the same row for every persona
HalfRow == [l \in LabelSet |-> IF l = Labels[1] THEN 1 ELSE PriorScale]
PriorTables ==
    LET PriorRow == [l \in LabelSet |->
                        IF l = Labels[1] THEN 0 ELSE PriorScale]
        NoRow == [l \in LabelSet |-> NoneCost]
        Names == {PersonaNames[i] : i \in 1..Len(PersonaNames)}
    IN  {[n \in Names |-> r] : r \in {NoRow, HalfRow}}
        \cup {[n \in Names |-> IF n = PersonaNames[1] THEN r ELSE NoRow] :
                r \in {PriorRow,
                       [PriorRow EXCEPT ![Labels[Len(Labels)]] = NoneCost]}}
VoteJudges ==
    {[strategy |-> "majority_vote"], [strategy |-> "weighted_vote"]}
    \cup {[strategy |-> "bayesian", persona_priors |-> t] : t \in PriorTables}
InitJudge ==
    InitWith({[c EXCEPT !.labels = l] :
        c \in UNION {Cfgs({<<>>}, {1}, {NoOverride}, {NoneCost},
                          {"independent"}, {1}, {5}, {FALSE},
                          Env({[label |-> "safe", confidence |-> 0,
                                cost_usd |-> NoneCost],
                               [label |-> "unsafe", confidence |-> MaxConf,
                                cost_usd |-> 1]},
                              {}, {j}, MaxSingleCalls)) :
                     j \in VoteJudges},
        l \in {Labels, <<>>}})
NextJudge ==
    \/ CallJudge
    \/ Return
    \/ Raise
SpecJudge == InitJudge /\ [][NextJudge]_vars

\* ThresholdCalibrator.calibrate on a Jury whose threshold is 0.7
InitCalibrate ==
    InitWith(Cfgs({<<>>}, {70}, {NoOverride}, {NoneCost}, {"independent"},
                  {1}, {5}, {FALSE},
                  Env([label : LabelSet, confidence : Confs,
                       cost_usd : {NoneCost}], {}, {}, MaxSingleCalls)))
NextCalibrate ==
    \/ CallCalibrate
    \/ \E t \in Items : CalibrateClassified(t)
    \/ \E t \in Items : ClassifierFails(t)
    \/ Return
    \/ Raise
SpecCalibrate == InitCalibrate /\ [][NextCalibrate]_vars

\* LiteLLMClient.complete called on its own
InitClient ==
    InitWith(Cfgs({<<>>}, {1}, {NoOverride}, {NoneCost}, {"independent"},
                  {1}, {5}, {FALSE},
                  Env({}, PayloadsOf(Contents, ReplyCosts), {},
                      MaxSingleCalls)))
NextClient ==
    \/ CallComplete
    \/ \E t \in Items : AttemptReturns(t)
    \/ \E t \in Items : AttemptFails(t)
    \/ \E t \in Items : BackoffEnds(t)
    \/ Return
    \/ Raise
SpecClient == InitClient /\ [][NextClient]_vars

\* ===================================================================
\* Properties
\* ===================================================================
JuryTask(tk) == tk.caller = "jury" /\ tk.primary # NoneRec

\* the debate engine was entered for this classify call
DebateRan(tk) ==
    tk.pc \in {"seq", "round", "summary", "failed"} \/ tk.transcript # NoneRec

\* the escalation rule as the specification words it
EscalationRule(primary) ==
    IF cfg.escalation_override.on
    THEN primary.confidence \in cfg.escalation_override.yes
    ELSE primary.confidence < cfg.threshold

\* C1: with at least one persona, a classify call runs the debate and
\* returns was_escalated = true exactly when confidence < threshold
\* (confidence = threshold does not escalate); with an override predicate
\* its value alone decides.
C1_EscalationIffBelowThreshold ==
    \A t \in Items :
        (JuryTask(tasks[t]) /\ NP >= 1) =>
            /\ DebateRan(tasks[t]) <=> EscalationRule(tasks[t].primary)
            /\ tasks[t].pc = "done" =>
                (tasks[t].verdict.was_escalated
                    <=> EscalationRule(tasks[t].primary))

\* a returned call whose confidence sat exactly on a positive threshold
C1_Witness ==
    \E t \in Items :
        /\ JuryTask(tasks[t]) /\ NP >= 1 /\ tasks[t].pc = "done"
        /\ ~cfg.escalation_override.on
        /\ cfg.threshold > 0
        /\ tasks[t].primary.confidence = cfg.threshold
        /\ ~tasks[t].verdict.was_escalated

\* the guard condition of the specification: a ceiling is configured and
\* the transcript cost is strictly above it
GuardCase(tk) ==
    /\ cfg.max_debate_cost_usd # NoneCost
    /\ tk.transcript.total_cost_usd > cfg.max_debate_cost_usd

\* C4: a transcript costing strictly more than the configured maximum makes
\* classify return the primary label and confidence, tagged
\* cost_guard_primary_fallback, escalated, with the transcript attached and
\* its cost as total cost, and the judge is not invoked; a cost equal to
\* the maximum does not trigger the guard.
C4_CostGuard ==
    \A t \in Items :
        (JuryTask(tasks[t]) /\ tasks[t].transcript # NoneRec) =>
            IF GuardCase(tasks[t])
            THEN /\ tasks[t].pc = "done"
                 /\ tasks[t].judge_calls = 0
                 /\ tasks[t].verdict.label = tasks[t].primary.label
                 /\ tasks[t].verdict.confidence = tasks[t].primary.confidence
                 /\ tasks[t].verdict.judge_strategy
                        = "cost_guard_primary_fallback"
                 /\ tasks[t].verdict.was_escalated
                 /\ tasks[t].verdict.debate_transcript = tasks[t].transcript
                 /\ tasks[t].verdict.total_cost_usd
                        = tasks[t].transcript.total_cost_usd
            ELSE /\ tasks[t].judge_calls = 1
                 /\ tasks[t].pc = "done" =>
                        tasks[t].verdict.judge_strategy
                            # "cost_guard_primary_fallback"

\* the guard fired on a call that has returned
C4_Witness ==
    \E t \in Items :
        /\ JuryTask(tasks[t]) /\ tasks[t].transcript # NoneRec
        /\ GuardCase(tasks[t])
        /\ tasks[t].pc = "done"
        /\ tasks[t].verdict.judge_strategy = "cost_guard_primary_fallback"

\* C5: a classify call that does not escalate returns, in the step in which
\* the primary classifier answers, a verdict with the primary label and
\* confidence, was_escalated = false, no transcript, the tag
\* primary_classifier and the primary cost (0 when it has none); no
\* completion and no judge call is made and fast_path grows by exactly one.
C5_FastPath ==
    [][\A t \in Items :
        (/\ tasks[t].pc = "classifier"
         /\ tasks'[t].caller = "jury"
         /\ tasks'[t].primary # NoneRec
         /\ ~(EscalationRule(tasks'[t].primary) /\ NP >= 1))
        =>
        (/\ tasks'[t].pc = "done"
         /\ tasks'[t].verdict.label = tasks'[t].primary.label
         /\ tasks'[t].verdict.confidence = tasks'[t].primary.confidence
         /\ tasks'[t].verdict.was_escalated = FALSE
         /\ tasks'[t].verdict.debate_transcript = NoneRec
         /\ tasks'[t].verdict.judge_strategy = "primary_classifier"
         /\ tasks'[t].verdict.primary_result = tasks'[t].primary
         /\ tasks'[t].verdict.total_cost_usd =
                (IF tasks'[t].primary.cost_usd = NoneCost THEN 0
                 ELSE tasks'[t].primary.cost_usd)
         /\ tasks'[t].llm_calls = 0
         /\ tasks'[t].judge_calls = 0
         /\ tasks'[t].transcript = NoneRec
         /\ stats'.fast_path = stats.fast_path + 1
         /\ stats'.escalated = stats.escalated)]_vars

\* a fast-path verdict for a primary result without a cost
C5_Witness ==
    \E t \in Items :
        /\ JuryTask(tasks[t]) /\ tasks[t].pc = "done"
        /\ ~tasks[t].verdict.was_escalated
        /\ tasks[t].primary.cost_usd = NoneCost
        /\ tasks[t].verdict.total_cost_usd = 0
        /\ stats.fast_path = 1

\* C6: a Jury without personas never escalates, whatever the confidence
\* and the override answer: the verdict is the fast-path one, escalated
\* stays 0 and no completion is requested.
C6_NoPersonasNoEscalation ==
    NP = 0 =>
        /\ stats.escalated = 0
        /\ \A t \in Items :
            JuryTask(tasks[t]) =>
                /\ tasks[t].pc = "done"
                /\ tasks[t].verdict.was_escalated = FALSE
                /\ tasks[t].verdict.judge_strategy = "primary_classifier"
                /\ tasks[t].verdict.debate_transcript = NoneRec
                /\ tasks[t].llm_calls = 0
                /\ tasks[t].judge_calls = 0

\* no personas, the override answered True, the fast path was taken
C6_Witness ==
    \E t \in Items :
        /\ NP = 0 /\ JuryTask(tasks[t]) /\ tasks[t].pc = "done"
        /\ cfg.escalation_override.on
        /\ tasks[t].primary.confidence \in cfg.escalation_override.yes
        /\ tasks[t].primary.confidence < cfg.threshold
        /\ ~tasks[t].verdict.was_escalated

\* C7: on the judge path the returned verdict has was_escalated = true,
\* this call's primary result and transcript, whatever the judge put there;
\* label, confidence, reasoning and judge_strategy are the judge's, and the
\* total cost is the transcript cost only when the judge left it unset.
C7_JudgePathOwnership ==
    \A t \in Items :
        (JuryTask(tasks[t]) /\ tasks[t].pc = "done"
            /\ tasks[t].judge_calls > 0) =>
            /\ tasks[t].verdict.was_escalated = TRUE
            /\ tasks[t].verdict.primary_result = tasks[t].primary
            /\ tasks[t].verdict.debate_transcript = tasks[t].transcript
            /\ tasks[t].verdict.label = tasks[t].judge_out.label
            /\ tasks[t].verdict.confidence = tasks[t].judge_out.confidence
            /\ tasks[t].verdict.reasoning = tasks[t].judge_out.reasoning
            /\ tasks[t].verdict.judge_strategy
                    = tasks[t].judge_out.judge_strategy
            /\ tasks[t].verdict.total_cost_usd =
                    (IF tasks[t].judge_out.total_cost_usd = NoneCost
                     THEN tasks[t].transcript.total_cost_usd
                     ELSE tasks[t].judge_out.total_cost_usd)

\* the judge returned was_escalated = false, foreign primary_result and
\* transcript, and a cost of its own that differs from the transcript's
C7_Witness ==
    \E t \in Items :
        /\ JuryTask(tasks[t]) /\ tasks[t].pc = "done"
        /\ tasks[t].judge_calls > 0
        /\ tasks[t].judge_out.was_escalated = FALSE
        /\ tasks[t].judge_out.primary_result # tasks[t].primary
        /\ tasks[t].judge_out.total_cost_usd = 0
        /\ tasks[t].transcript.total_cost_usd > 0

\* C2: fast_path + escalated = total in every state the event loop can
\* show between two steps, for every interleaving of concurrent classify
\* calls and after calls that failed in the debate engine or the judge.
C2_StatsInvariant ==
    stats.fast_path + stats.escalated = stats.total

\* a batch in which one call failed after it had counted itself as
\* escalated while another escalated call is still in its debate
C2_Witness ==
    \E t1, t2 \in Items :
        /\ t1 # t2
        /\ call.kind = "batch"
        /\ tasks[t1].pc = "failed" /\ tasks[t1].primary # NoneRec
        /\ tasks[t2].pc \in {"seq", "round"}
        /\ stats.total >= 3 /\ stats.fast_path >= 1

\* C3: classify_batch returns one verdict per input text and the i-th
\* verdict is the verdict of the i-th text, whatever the completion order.
C3_BatchOrder ==
    (call.kind = "batch" /\ call.status = "returned") =>
        /\ Len(call.result) = call.n
        /\ \A i \in 1..call.n :
            /\ call.result[i].primary_result.text = i
            /\ call.result[i] = tasks[i].verdict

\* a returned batch whose second text completed before its first
C3_Witness ==
    /\ call.kind = "batch" /\ call.status = "returned"
    /\ call.n = 2
    /\ call.completed = <<2, 1>>
    /\ call.result[1].label # call.result[2].label

SameLabel(round) ==
    \A a, b \in 1..Len(round) : round[a].label = round[b].label

DebateTask(tk) == tk.caller # "none"

\* C8 as claimed: in Deliberation mode never more than max_rounds rounds,
\* and no further persona round after any round in which all responses
\* share one label.
C8_AsClaimed ==
    \A t \in Items :
        (DebateTask(tasks[t]) /\ cfg.mode = "deliberation") =>
            /\ Len(tasks[t].rounds) <= cfg.max_rounds
            /\ \A r \in 1..Len(tasks[t].rounds) :
                SameLabel(tasks[t].rounds[r]) =>
                    (r = Len(tasks[t].rounds) /\ tasks[t].pc # "round")

\* C8 (amended): in Deliberation mode never more than max(1, max_rounds)
\* rounds, and no further persona round after any deliberation round
\* (round 2 or later) in which all responses share one label.
C8_DeliberationHalts ==
    \A t \in Items :
        (DebateTask(tasks[t]) /\ cfg.mode = "deliberation") =>
            /\ Len(tasks[t].rounds) <= Max(1, cfg.max_rounds)
            /\ \A r \in 2..Len(tasks[t].rounds) :
                SameLabel(tasks[t].rounds[r]) =>
                    (r = Len(tasks[t].rounds) /\ tasks[t].pc # "round")

\* max_rounds = 3, the first round split, the second unanimous, and the
\* debate went on to its summary with two rounds
C8_Witness ==
    \E t \in Items :
        /\ DebateTask(tasks[t]) /\ cfg.mode = "deliberation"
        /\ cfg.max_rounds >= 3
        /\ Len(tasks[t].rounds) = 2
        /\ ~SameLabel(tasks[t].rounds[1])
        /\ SameLabel(tasks[t].rounds[2])
        /\ tasks[t].pc = "done"

\* the running cost after the first k responses is above the ceiling
Exceeds(resp, k) ==
    /\ cfg.max_debate_cost_usd # NoneCost
    /\ SumCost(SubSeq(resp, 1, k)) > cfg.max_debate_cost_usd

SeqTask(tk) == DebateTask(tk) /\ cfg.mode = "sequential" /\ NP >= 1
                /\ tk.pc \in {"seq", "done", "failed"}
                /\ (tk.caller = "jury" => tk.primary # NoneRec)

\* C9: in Sequential mode the round is the prefix of the persona list that
\* ends with the first persona whose response lifts the running cost
\* strictly above the ceiling, and nobody after it is queried; if that
\* never happens or no ceiling is set every persona is queried once.
C9_SequentialCeiling ==
    \A t \in Items :
        SeqTask(tasks[t]) =>
            LET resp == tasks[t].responses
            IN  /\ \A k \in 1..(Len(resp) - 1) : ~Exceeds(resp, k)
                /\ \A k \in 1..Len(resp) :
                        resp[k].persona_name = cfg.personas[k]
                /\ tasks[t].pc = "seq" =>
                        /\ tasks[t].llm_calls = Len(resp) + 1
                        /\ Len(resp) < NP
                        /\ ~Exceeds(resp, Len(resp))
                /\ tasks[t].pc = "done" =>
                        /\ tasks[t].transcript.rounds = <<resp>>
                        /\ tasks[t].llm_calls = Len(resp)
                        /\ Len(resp) = NP \/ Exceeds(resp, Len(resp))

\* a returned sequential debate cut short by the ceiling at its second
\* persona
C9_Witness ==
    \E t \in Items :
        /\ SeqTask(tasks[t]) /\ tasks[t].pc = "done"
        /\ Len(tasks[t].transcript.rounds[1]) = 2
        /\ Len(tasks[t].transcript.rounds[1]) < NP
        /\ Exceeds(tasks[t].responses, Len(tasks[t].responses))
        /\ cfg.max_debate_cost_usd > 0

\* C10: in Sequential mode at most one persona query is in flight, the
\* queries go in persona list order, the prompt of the k-th persona shows
\* exactly the responses of personas 1..k-1, and the transcript has one
\* round in persona list order.
C10_SequentialOrder ==
    \A t \in Items :
        SeqTask(tasks[t]) =>
            LET resp == tasks[t].responses
                k == Len(resp) + 1
                earlier == [m \in 1..Len(resp) |->
                               [persona_name |-> cfg.personas[m],
                                label |-> resp[m].label,
                                confidence |-> resp[m].confidence]]
            IN  /\ tasks[t].llm_calls - Len(resp) \in {0, 1}
                /\ tasks[t].pc = "seq" =>
                        /\ tasks[t].llm_calls = k
                        /\ tasks[t].prompt.persona = cfg.personas[k]
                        /\ tasks[t].prompt.prior =
                               (IF k = 1 THEN <<>> ELSE <<earlier>>)
                /\ tasks[t].pc = "done" =>
                        /\ Len(tasks[t].transcript.rounds) = 1
                        /\ \A m \in 1..Len(tasks[t].transcript.rounds[1]) :
                               tasks[t].transcript.rounds[1][m].persona_name
                                   = cfg.personas[m]

\* the second persona is being queried and is shown the first response
C10_Witness ==
    \E t \in Items :
        /\ SeqTask(tasks[t]) /\ tasks[t].pc = "seq"
        /\ Len(tasks[t].responses) = 1
        /\ Len(tasks[t].prompt.prior) = 1
        /\ tasks[t].prompt.prior[1][1].persona_name = cfg.personas[1]

\* the cost / token count of all persona responses of the rounds
RECURSIVE RoundsCost(_)
RoundsCost(rounds) ==
    IF rounds = <<>> THEN 0 ELSE SumCost(rounds[1]) + RoundsCost(Tail(rounds))

RECURSIVE RoundsTokens(_)
RoundsTokens(rounds) ==
    IF rounds = <<>> THEN 0
    ELSE SumTokens(rounds[1]) + RoundsTokens(Tail(rounds))

DelibTask(tk) == DebateTask(tk) /\ cfg.mode = "deliberation" /\ NP >= 1

\* the first round has been gathered and its cost is above the ceiling
FirstRoundOver(tk) ==
    /\ Len(tk.rounds) >= 1
    /\ cfg.max_debate_cost_usd # NoneCost
    /\ SumCost(tk.rounds[1]) > cfg.max_debate_cost_usd

\* C11: in Deliberation mode, when the cost of the first round is strictly
\* above the ceiling, debate has returned in the step that gathered the
\* round: the transcript has exactly that round and no summary, and no
\* deliberation round and no summary completion was issued (the only
\* completions are the first round's, one per persona).
C11_FirstRoundCeiling ==
    \A t \in Items :
        (DelibTask(tasks[t]) /\ tasks[t].caller = "engine"
            /\ FirstRoundOver(tasks[t])) =>
            /\ tasks[t].pc = "done"
            /\ tasks[t].stage = "first"
            /\ Len(tasks[t].rounds) = 1
            /\ tasks[t].transcript.rounds = tasks[t].rounds
            /\ tasks[t].transcript.summary = NoneRec
            /\ tasks[t].transcript.total_cost_usd = SumCost(tasks[t].rounds[1])
            /\ tasks[t].summary_calls = 0
            /\ tasks[t].llm_calls = NP

\* max_rounds allows a deliberation round, the first round cost more than a
\* positive ceiling, and debate returned with one round
C11_Witness ==
    \E t \in Items :
        /\ DelibTask(tasks[t]) /\ tasks[t].caller = "engine"
        /\ FirstRoundOver(tasks[t])
        /\ cfg.max_rounds >= 2
        /\ cfg.max_debate_cost_usd > 0
        /\ tasks[t].pc = "done"
        /\ Len(tasks[t].transcript.rounds) = 1

\* C12: in Deliberation mode at most one summary completion is issued, only
\* after the persona rounds are over; a returned debate issued it exactly
\* when the persona cost is not above the ceiling (or there is no ceiling),
\* and then the transcript summary is the completion's text and the totals
\* are the persona totals plus the completion's tokens and cost; otherwise
\* the summary is null and the totals are the persona totals.  The other
\* modes never issue a summary completion.
C12_SummaryIffWithinCeiling ==
    \A t \in Items :
        LET tk == tasks[t]
            cost == RoundsCost(tk.rounds)
            tokens == RoundsTokens(tk.rounds)
        IN  /\ (DebateTask(tk) /\ cfg.mode # "deliberation") =>
                    /\ tk.summary_calls = 0
                    /\ tk.pc # "summary"
                    /\ tk.transcript # NoneRec =>
                            tk.transcript.summary = NoneRec
            /\ (DelibTask(tk) /\ tk.caller = "engine") =>
                    /\ tk.summary_calls \in {0, 1}
                    /\ tk.summary_calls = 1 =>
                            /\ tk.pc \in {"summary", "done", "failed"}
                            /\ tk.llm_calls = NP * Len(tk.rounds) + 1
                            /\ ~OverCeiling(cost)
                    /\ tk.pc = "summary" => tk.summary_calls = 1
                    /\ tk.pc = "done" =>
                        IF ~OverCeiling(cost)
                        THEN /\ tk.summary_calls = 1
                             /\ \E p \in SummaryPayloads :
                                    /\ tk.transcript.summary = p.content
                                    /\ tk.transcript.total_tokens
                                            = tokens + p.tokens
                                    /\ tk.transcript.total_cost_usd
                                            = cost + CostOr0(p.cost_usd)
                        ELSE /\ tk.summary_calls = 0
                             /\ tk.transcript.summary = NoneRec
                             /\ tk.transcript.total_tokens = tokens
                             /\ tk.transcript.total_cost_usd = cost

\* a returned deliberation whose persona cost sits exactly on a positive
\* ceiling and whose summary added a cost of its own
C12_Witness ==
    \E t \in Items :
        /\ DelibTask(tasks[t]) /\ tasks[t].caller = "engine"
        /\ tasks[t].pc = "done"
        /\ cfg.max_debate_cost_usd > 0
        /\ RoundsCost(tasks[t].rounds) = cfg.max_debate_cost_usd
        /\ tasks[t].summary_calls = 1
        /\ tasks[t].transcript.summary = SummaryText
        /\ tasks[t].transcript.total_cost_usd > cfg.max_debate_cost_usd

\* C13: no content handed to a persona query or to the LLM judge makes the
\* parsing raise: a classify call never ends in an exception of the
\* parsing code, so with a classifier and completions that answer it
\* returns a Verdict.
C13_MalformedNeverAborts ==
    \A t \in Items :
        JuryTask(tasks[t]) => tasks[t].parse_error = NoneVal

\* a classify call that went through its debate and was aborted by the
\* exception raised while the LLM judge's answer was parsed
C13_Witness ==
    \E t \in Items :
        /\ JuryTask(tasks[t]) /\ tasks[t].pc = "failed"
        /\ tasks[t].judge_calls = 1
        /\ tasks[t].parse_error = "ValueError"

\* the persona responses a task holds: gathered rounds, the sequential
\* round in progress, and the finished queries of the round in progress
ResponsesOf(tk) ==
    UNION {{tk.rounds[r][k] : k \in 1..Len(tk.rounds[r])} :
                r \in 1..Len(tk.rounds)} \cup
    {tk.responses[k] : k \in 1..Len(tk.responses)} \cup
    {tk.cur[i].response : i \in {i \in DOMAIN tk.cur : tk.cur[i].st = "done"}}

\* C14: a raw text that is not JSON or is JSON but not an object, with or
\* without code fences, gives the fallback response: the first configured
\* label ("unknown" when there is none), confidence 0, no key factors, a
\* reasoning that holds the first 200 characters of the raw text, and the
\* token count and cost of the completion that carried it.
C14_FallbackRecord ==
    \A t \in Items : \A r \in ResponsesOf(tasks[t]) :
        r.raw_response \in NonObjectContents =>
            /\ r.label = (IF cfg.labels = <<>> THEN "unknown"
                          ELSE cfg.labels[1])
            /\ r.confidence = 0
            /\ r.key_factors = <<>>
            /\ r.reasoning.failed.of = r.raw_response
            /\ r.reasoning.failed.len =
                    (IF RawLen(r.raw_response) <= 200
                     THEN RawLen(r.raw_response) ELSE 200)
            /\ \E p \in cfg.payloads :
                    /\ p.content = r.raw_response
                    /\ r.tokens_used = p.tokens
                    /\ r.cost_usd = CostOr0(p.cost_usd)

\* a fenced text longer than 200 characters answered by a persona of an
\* engine without labels: the fallback is "unknown" with a cut reasoning
C14_Witness ==
    \E t \in Items : \E r \in ResponsesOf(tasks[t]) :
        /\ r.raw_response = Fenced(LongText)
        /\ cfg.labels = <<>>
        /\ r.label = "unknown"
        /\ r.reasoning.failed.len < RawLen(r.raw_response)
        /\ r.cost_usd > 0

\* classify calls of the batch that have started and not finished
BatchInFlight == {t \in 1..call.n : ~Finished(tasks[t]) /\ tasks[t].pc # "queued"}

\* C15: during classify_batch the classify calls that have started and not
\* finished are at most max(1, concurrency), and together with the free
\* slots of the semaphore exactly that many; the other unfinished items
\* are waiting for admission.
C15_BatchConcurrency ==
    (call.kind = "batch" /\ call.status = "running") =>
        LET limit == IF call.concurrency >= 1 THEN call.concurrency ELSE 1
        IN  /\ Cardinality(BatchInFlight) <= limit
            /\ Cardinality(BatchInFlight) + call.sem = limit
            /\ \A t \in 1..call.n :
                    (~Finished(tasks[t]) /\ t \notin BatchInFlight) =>
                        (tasks[t].pc = "queued" /\ tasks[t].primary = NoneRec)

\* a batch of two with concurrency 0: one call is in its debate, the other
\* waits
C15_Witness ==
    /\ call.kind = "batch" /\ call.status = "running"
    /\ call.n = 2 /\ call.concurrency = 0
    /\ \E t1, t2 \in 1..call.n :
        /\ tasks[t1].pc \in {"seq", "round", "summary"}
        /\ tasks[t2].pc = "queued"

\* persona queries of the round in progress that are in flight
RoundInFlight(tk) == {i \in DOMAIN tk.cur : tk.cur[i].st = "inflight"}

\* C16 as claimed: in a parallel round the persona queries in flight are at
\* most the configured round concurrency.
C16_AsClaimed ==
    \A t \in Items :
        (DebateTask(tasks[t]) /\ cfg.mode # "sequential") =>
            Cardinality(RoundInFlight(tasks[t])) <= cfg.debate_concurrency

\* C16 (amended): in every parallel round (Independent, Adversarial, each
\* Deliberation round) the persona queries in flight are at most
\* max(1, configured round concurrency), for every number of personas.
C16_RoundConcurrency ==
    \A t \in Items :
        (DebateTask(tasks[t]) /\ cfg.mode # "sequential") =>
            LET limit == IF cfg.debate_concurrency >= 1
                         THEN cfg.debate_concurrency ELSE 1
            IN  /\ Cardinality(RoundInFlight(tasks[t])) <= limit
                /\ tasks[t].pc = "round" =>
                        Cardinality(RoundInFlight(tasks[t])) + tasks[t].sem
                            = limit

\* a deliberation round (round 2 or later) in which as many queries as the
\* limit allows are in flight and another persona waits
C16_Witness ==
    \E t \in Items :
        /\ DebateTask(tasks[t]) /\ cfg.mode = "deliberation"
        /\ tasks[t].pc = "round" /\ tasks[t].stage = "delib"
        /\ tasks[t].sem = 0
        /\ Cardinality(RoundInFlight(tasks[t])) < NP
        /\ \E i \in PersonaIdx : tasks[t].cur[i].st = "pending"

\* ------------------------------------------------------ the vote strategies
\* judge.judge of the configured strategy returned a verdict for a
\* transcript whose final round is not empty
VotedTask(tk, strategy) ==
    /\ tk.caller = "judge" /\ tk.pc = "done"
    /\ \A j \in cfg.judge_choices : j.strategy = strategy
    /\ ~NoFinalRound(tk.transcript)
FinalRound(tk) == tk.transcript.rounds[Len(tk.transcript.rounds)]
VotesFor(round, label) == {k \in 1..Len(round) : round[k].label = label}
FirstVote(round, label) ==
    CHOOSE k \in VotesFor(round, label) : \A m \in VotesFor(round, label) : k <= m
ConfSum(round, voters) ==
    SumSeq([k \in 1..Len(round) |->
               IF k \in voters THEN round[k].confidence ELSE 0])

\* C17: for every non-empty final round, MajorityVoteJudge returns the
\* label with the highest count in the final round, whatever the earlier
\* rounds hold; among the labels with that count it returns the one that
\* appears first in the round; the confidence is winner_count / round_size,
\* a fraction k/n with 1 <= k <= n.
C17_MajorityVote ==
    \A t \in Items :
        VotedTask(tasks[t], "majority_vote") =>
            LET round == FinalRound(tasks[t])
                v == tasks[t].verdict
                k == Cardinality(VotesFor(round, v.label))
            IN  /\ VotesFor(round, v.label) # {}
                /\ \A m \in 1..Len(round) :
                      LET other == Cardinality(VotesFor(round, round[m].label))
                      IN  /\ other <= k
                          /\ (other = k /\ round[m].label # v.label) =>
                                FirstVote(round, v.label) < m
                /\ v.confidence = [num |-> k, den |-> Len(round)]
                /\ 1 <= k /\ k <= Len(round)
                /\ v.judge_strategy = "majority_vote"

\* a tie in the final round, after an earlier round that names the label
\* that loses the tie
C17_Witness ==
    \E t \in Items :
        /\ VotedTask(tasks[t], "majority_vote")
        /\ Len(tasks[t].transcript.rounds) = 2
        /\ LET round == FinalRound(tasks[t])
               v == tasks[t].verdict
           IN  /\ tasks[t].transcript.rounds[1][1].label # v.label
               /\ \E m \in 1..Len(round) :
                     /\ round[m].label # v.label
                     /\ Cardinality(VotesFor(round, round[m].label))
                            = Cardinality(VotesFor(round, v.label))
               /\ v.confidence.num < v.confidence.den

\* C18 as claimed: the confidence of the WeightedVoteJudge verdict is the
\* quotient (sum of the winner's confidences) / (sum of all confidences
\* of the final round) for every non-empty final round, also when every
\* confidence is 0.
C18_AsClaimed ==
    \A t \in Items :
        VotedTask(tasks[t], "weighted_vote") =>
            LET round == FinalRound(tasks[t])
                v == tasks[t].verdict
                all == ConfSum(round, 1..Len(round))
            IN  /\ all # 0
                /\ v.confidence.num * all
                      = ConfSum(round, VotesFor(round, v.label))
                          * v.confidence.den

\* C18: for every non-empty final round, WeightedVoteJudge returns a label
\* whose sum of confidences in the final round no other label's sum
\* exceeds; while some confidence is positive its confidence is (sum of
\* the winner's confidences) / (sum of all confidences of the round); when
\* every confidence is 0 the total is replaced by 1, the confidence is 0
\* and the label is the first one of the round.
C18_WeightedVote ==
    \A t \in Items :
        VotedTask(tasks[t], "weighted_vote") =>
            LET round == FinalRound(tasks[t])
                v == tasks[t].verdict
                all == ConfSum(round, 1..Len(round))
                won == ConfSum(round, VotesFor(round, v.label))
            IN  /\ VotesFor(round, v.label) # {}
                /\ \A m \in 1..Len(round) :
                      ConfSum(round, VotesFor(round, round[m].label)) <= won
                /\ all > 0 => v.confidence = [num |-> won, den |-> all]
                /\ all = 0 => /\ v.confidence = [num |-> 0, den |-> MaxConf]
                              /\ v.label = round[1].label
                /\ v.judge_strategy = "weighted_vote"

\* the label with fewer responses wins by its confidences
C18_Witness ==
    \E t \in Items :
        /\ VotedTask(tasks[t], "weighted_vote")
        /\ LET round == FinalRound(tasks[t])
               v == tasks[t].verdict
           IN  /\ \E m \in 1..Len(round) :
                     Cardinality(VotesFor(round, round[m].label))
                       > Cardinality(VotesFor(round, v.label))
               /\ v.confidence.num < v.confidence.den

\* BayesianJudge returned a verdict for a non-empty final round and a
\* non-empty label set
BayesTask(tk) == VotedTask(tk, "bayesian") /\ cfg.labels # <<>>
Priors == (CHOOSE j \in cfg.judge_choices : TRUE).persona_priors

\* C19: for every non-empty final round and every non-empty label set, the
\* posteriors of BayesianJudge over the label set are all strictly positive
\* and sum to 1 after normalisation, also with confidences 0 and 1 and
\* with a supplied prior of 0; the verdict carries the winner's posterior.
C19_PosteriorsPositive ==
    \A t \in Items :
        BayesTask(tasks[t]) =>
            LET round == FinalRound(tasks[t])
                labels == cfg.labels
                post == BayesPosterior(round, labels, Priors)
            IN  /\ \A i \in 1..Len(labels) : post[labels[i]].num.coef > 0
                /\ \A e \in 0..Len(round) :
                      SumSeq([i \in 1..Len(labels) |->
                                 IF post[labels[i]].num.eps = e
                                 THEN post[labels[i]].num.coef ELSE 0])
                        = post[labels[1]].den[e]
                /\ tasks[t].verdict.confidence
                      = post[tasks[t].verdict.label]

\* the first persona has a supplied prior of 0 and the round holds a
\* response of confidence 0 and one of confidence 1
C19_Witness ==
    \E t \in Items :
        /\ BayesTask(tasks[t])
        /\ Priors[PersonaNames[1]][Labels[1]] = 0
        /\ \E k, m \in 1..Len(FinalRound(tasks[t])) :
              /\ FinalRound(tasks[t])[k].confidence = 0
              /\ FinalRound(tasks[t])[m].confidence = MaxConf

RECURSIVE Product(_)
Product(values) ==
    IF values = <<>> THEN 1 ELSE values[1] * Product(Tail(values))
Likelihood(response, label) ==
    IF response.label = label THEN response.confidence
    ELSE MaxConf - response.confidence
\* label's value as (coef, eps) given each response's factor in units of
\* 1/scale; a factor below 1/EpsDen counts as one power of 1/EpsDen
ValueOf(factors, scale) ==
    [coef |-> Product([k \in 1..Len(factors) |->
                  IF factors[k] * EpsDen < scale THEN scale
                  ELSE factors[k]]),
     eps |-> Cardinality({k \in 1..Len(factors) :
                  factors[k] * EpsDen < scale})]
\* the sum of the values of the labels, by power of 1/EpsDen
TotalOf(values, n) ==
    [e \in 0..n |->
        SumSeq([i \in 1..Len(values) |->
                   IF values[i].eps = e THEN values[i].coef ELSE 0])]
\* the value of a polynomial in 1/EpsDen is unchanged when a coefficient
\* of EpsDen or more is carried to the next lower power
RECURSIVE Carried(_, _)
Carried(p, k) ==
    IF k = 0 THEN p
    ELSE Carried([p EXCEPT ![k] = p[k] % EpsDen,
                           ![k - 1] = p[k - 1] + p[k] \div EpsDen], k - 1)
Times(v, p, n) ==
    Carried([e \in 0..(2 * n) |->
                IF e >= v.eps /\ e - v.eps <= n THEN v.coef * p[e - v.eps]
                ELSE 0], 2 * n)
\* v1 / total1 = v2 / total2
SameQuotient(v1, total1, v2, total2, n) ==
    Times(v1, total2, n) = Times(v2, total1, n)

\* the value the code computes for a label: one factor
\* max(1e-6, prior * likelihood) for each response, the prior being the
\* responding persona's
CodeValues(round, labels) ==
    [i \in 1..Len(labels) |->
        ValueOf([k \in 1..Len(round) |->
                    PriorOf(Priors, round[k].persona_name, labels[i], labels)
                      * Likelihood(round[k], labels[i])],
                FactorScale)]
\* the value as claimed, up to one scale for all labels: the prior once,
\* times one factor max(1e-6, likelihood) for each response
ClaimedValues(round, labels) ==
    [i \in 1..Len(labels) |->
        LET v == ValueOf([k \in 1..Len(round) |->
                             Likelihood(round[k], labels[i])], MaxConf)
        IN  [v EXCEPT !.coef = @ * PriorOf(Priors, round[1].persona_name,
                                          labels[i], labels)]]

\* C20 as claimed: the value of a label is its prior, taken once, times
\* one floored likelihood for each response of the final round; the label
\* of the verdict has the largest value and the confidence is that value
\* divided by the sum of the values.  Stated for prior tables that give
\* every persona the same row, so that the prior of a label is one number.
C20_AsClaimed ==
    \A t \in Items :
        (BayesTask(tasks[t]) /\ \A a, b \in DOMAIN Priors :
                                  Priors[a] = Priors[b]) =>
            LET round == FinalRound(tasks[t])
                labels == cfg.labels
                v == tasks[t].verdict
                claimed == ClaimedValues(round, labels)
                w == CHOOSE i \in 1..Len(labels) : labels[i] = v.label
            IN  /\ \A i \in 1..Len(labels) :
                      ~BayesGreater(claimed[i], claimed[w])
                /\ SameQuotient(v.confidence.num, v.confidence.den,
                                claimed[w], TotalOf(claimed, Len(round)),
                                Len(round))

\* C20: BayesianJudge computes, for each label, the product over the
\* responses of the final round of max(1e-6, prior * likelihood), starting
\* from 1, where the prior is the responding persona's table entry for the
\* label (else 1/|labels|) and the likelihood is the response's confidence
\* if its label matches, else 1 - confidence; the verdict's label is the
\* first label of the label set with the largest value and its confidence
\* is that value divided by the sum over all labels.
C20_Bayesian ==
    \A t \in Items :
        BayesTask(tasks[t]) =>
            LET round == FinalRound(tasks[t])
                labels == cfg.labels
                v == tasks[t].verdict
                values == CodeValues(round, labels)
            IN  \E w \in 1..Len(labels) :
                  /\ v.label = labels[w]
                  /\ \A i \in 1..Len(labels) :
                        /\ i < w => BayesGreater(values[w], values[i])
                        /\ i > w => ~BayesGreater(values[i], values[w])
                  /\ v.confidence = [num |-> values[w],
                                     den |-> TotalOf(values, Len(round))]
                  /\ v.judge_strategy = "bayesian"

\* two responses judged with a table that gives every persona the same
\* row of unequal priors
C20_Witness ==
    \E t \in Items :
        /\ BayesTask(tasks[t])
        /\ Len(FinalRound(tasks[t])) >= 2
        /\ \A a \in DOMAIN Priors : Priors[a] = HalfRow
        /\ tasks[t].verdict.confidence.num.eps = 0

\* C21: when the transcript has no rounds or its final round has no
\* responses, each of the Majority, Weighted and Bayesian judges returns,
\* without raising, a verdict with the primary result's label and
\* confidence, was_escalated = true and its own strategy tag.
C21_VoteFallback ==
    \A t \in Items :
        (tasks[t].caller = "judge" /\ NoFinalRound(tasks[t].transcript)) =>
            /\ tasks[t].pc = "done"
            /\ tasks[t].verdict.label = tasks[t].primary.label
            /\ tasks[t].verdict.confidence = tasks[t].primary.confidence
            /\ tasks[t].verdict.was_escalated
            /\ tasks[t].verdict.primary_result = tasks[t].primary
            /\ \A j \in cfg.judge_choices :
                  /\ j.strategy \in {"majority_vote", "weighted_vote",
                                     "bayesian"}
                  /\ tasks[t].verdict.judge_strategy = j.strategy

\* the Bayesian judge, given no labels, has answered a transcript whose
\* final round is empty after a round that was not
C21_Witness ==
    \E t \in Items :
        /\ tasks[t].caller = "judge" /\ tasks[t].pc = "done"
        /\ cfg.labels = <<>>
        /\ \A j \in cfg.judge_choices : j.strategy = "bayesian"
        /\ Len(tasks[t].transcript.rounds) = 2
        /\ tasks[t].transcript.rounds[2] = <<>>
        /\ call.status = "returned"

\* ------------------------------------------------------------------ LLMJudge
\* the completion call of the LLM judge of a classify call has answered
JudgeAnswered(tk) ==
    /\ JuryTask(tk) /\ tk.judge_calls = 1
    /\ tk.pc = "done" \/ (tk.pc = "failed" /\ tk.parse_error # NoneVal)

\* C22: LLMJudge makes one completion call per invocation; a reply that
\* does not parse to a JSON object gives a verdict with the primary
\* result's label and confidence tagged "llm_judge_fallback_invalid_json",
\* every other reply gives a verdict tagged "llm_judge"; in both cases
\* was_escalated is true and the total cost is the transcript's cost plus
\* the cost of the judge's own call.
C22_LLMJudgeVerdict ==
    \A t \in Items :
        JudgeAnswered(tasks[t]) =>
            LET v == tasks[t].judge_out
                tk == tasks[t]
            IN  /\ tk.pc = "done"
                /\ tk.llm_calls
                      = SumSeq([r \in 1..Len(tk.transcript.rounds) |->
                                   Len(tk.transcript.rounds[r])])
                          + tk.summary_calls + 1
                /\ v.judge_strategy \in {"llm_judge",
                                          "llm_judge_fallback_invalid_json"}
                /\ v.judge_strategy = "llm_judge_fallback_invalid_json" =>
                      /\ v.label = tk.primary.label
                      /\ v.confidence = tk.primary.confidence
                /\ v.was_escalated
                /\ \E payload \in cfg.payloads :
                      v.total_cost_usd
                        = CostOr0(tk.transcript.total_cost_usd)
                            + CostOr0(payload.cost_usd)

\* the judge's reply was a JSON object whose confidence is null
C22_Witness ==
    \E t \in Items :
        /\ JudgeAnswered(tasks[t])
        /\ tasks[t].pc = "failed"
        /\ tasks[t].parse_error = "TypeError"

\* ------------------------------------------------------- failures in a batch
\* C23: if the classify call of an item of a batch raises, classify_batch
\* does not return: its caller gets no list of verdicts, not even a
\* partial one, and the only way the call ends is by raising.
C23_BatchAborts ==
    (call.kind = "batch"
        /\ \E t \in 1..call.n : tasks[t].pc = "failed") =>
            /\ call.status \in {"running", "raised"}
            /\ call.result = <<>>

\* a batch call has raised while another of its items had its verdict
C23_Witness ==
    /\ call.kind = "batch" /\ call.status = "raised"
    /\ call.result = <<>>
    /\ \E t, u \in 1..call.n :
          /\ tasks[t].pc = "failed"
          /\ tasks[u].pc = "done" /\ tasks[u].verdict # NoneRec

\* C24: when a task of a batch (or of a parallel round) has failed and the
\* error has propagated to the caller, no sibling task of the group starts
\* a further classifier or completion-service call and none changes
\* JuryStats.
C24_GroupAborted ==
    [][(call.status = "raised" /\ ncalls' = ncalls) =>
          /\ stats' = stats
          /\ \A t \in Items :
                /\ tasks'[t].llm_calls = tasks[t].llm_calls
                /\ ~(tasks[t].pc = "queued" /\ tasks'[t].pc = "classifier")]_vars

\* the batch call has raised while a sibling of the failed item is still
\* waiting for the semaphore
C24_Witness ==
    /\ call.kind = "batch" /\ call.status = "raised"
    /\ \E t, u \in 1..call.n :
          /\ tasks[t].pc = "failed"
          /\ tasks[u].pc = "queued"

\* --------------------------------------------------------- LiteLLMClient
ClientTask(tk) == tk.caller = "client"
Transient(type) ==
    type \in {"ConnectionError", "TimeoutError", "OSError",
              "FileNotFoundError"}

\* C25: LiteLLMClient.complete attempts a request at most 3 times; every
\* attempt but the first follows a transient transport failure of the
\* attempt before it; complete returns on the first successful attempt,
\* propagates the error after the third consecutive transient failure, and
\* propagates any other failure at once.
C25_RetryPolicy ==
    \A t \in Items :
        ClientTask(tasks[t]) =>
            LET tk == tasks[t]
                log == tk.responses
            IN  /\ tk.llm_calls = tk.iter /\ tk.iter <= 3
                /\ Len(log) = (IF tk.pc = "request" THEN tk.iter - 1
                               ELSE tk.iter)
                /\ \A k \in 1..(Len(log) - 1) : Transient(log[k])
                /\ tk.pc = "backoff" => Transient(log[Len(log)])
                /\ tk.pc = "done" <=> (log # <<>> /\ log[Len(log)] = "ok")
                /\ tk.pc = "failed" <=>
                      /\ log # <<>> /\ log[Len(log)] # "ok"
                      /\ ~Transient(log[Len(log)]) \/ Len(log) = 3
                /\ tk.pc = "failed" => tk.parse_error = log[Len(log)]

\* the third attempt failed like the two before it and the error reached
\* the caller
C25_Witness ==
    \E t \in Items :
        /\ ClientTask(tasks[t]) /\ tasks[t].pc = "failed"
        /\ tasks[t].llm_calls = 3
        /\ Transient(tasks[t].parse_error)
        /\ call.status = "raised"

\* ------------------------------------------------------------- JuryStats
\* C26: once the classify calls made so far have ended, stats.total is the
\* number of them that returned a Verdict: a call that failed inside the
\* debate engine or the judge has left total, fast_path and escalated as
\* they were before it.
C26_StatsCountCompleted ==
    (Quiescent /\ call.kind = "classify"
        /\ call.status \in {"returned", "raised"}) =>
            LET returned == {t \in 1..call.n : tasks[t].pc = "done"}
            IN  /\ stats.total = Cardinality(returned)
                /\ stats.fast_path + stats.escalated = Cardinality(returned)

\* a classify call that failed after its primary result, inside the debate
\* engine or the judge, has raised to its caller
C26_Witness ==
    /\ call.kind = "classify" /\ call.status = "raised"
    /\ tasks[1].pc = "failed" /\ tasks[1].primary # NoneRec
    /\ tasks[1].llm_calls > 0

\* ---------------------------------------------------------- on_escalation
\* C27: for every escalated classify call the configured on_escalation
\* callback is invoked exactly once, with that call's text and primary
\* result, after the escalated counter was incremented for the call and
\* before the debate engine is invoked; a fast-path call never invokes it.
C27_EscalationCallback ==
    /\ [](\A t \in Items :
            JuryTask(tasks[t]) =>
                LET tk == tasks[t]
                    escalated == EscalationRule(tk.primary) /\ NP > 0
                IN  /\ Len(tk.esc_cb) =
                          (IF escalated /\ cfg.on_escalation THEN 1 ELSE 0)
                    /\ \A k \in 1..Len(tk.esc_cb) :
                          /\ tk.esc_cb[k].text = tk.text
                          /\ tk.esc_cb[k].primary = tk.primary
                          /\ tk.esc_cb[k].llm_calls = 0
                          /\ tk.esc_cb[k].escalated >= 1
                          /\ tk.esc_cb[k].escalated <= stats.escalated)
    /\ [][\A t \in Items :
            (ncalls' = ncalls /\ tasks'[t].esc_cb # tasks[t].esc_cb) =>
                /\ tasks[t].pc = "classifier" /\ tasks[t].llm_calls = 0
                /\ stats'.escalated = stats.escalated + 1
                /\ tasks'[t].esc_cb
                      = <<[text |-> tasks[t].text,
                           primary |-> tasks'[t].primary,
                           escalated |-> stats'.escalated,
                           llm_calls |-> 0]>>]_vars

\* both items of a batch escalated and each had its callback, the second
\* one finding the counter at 2
C27_Witness ==
    /\ call.kind = "batch" /\ call.n = 2
    /\ \A t \in 1..2 : Len(tasks[t].esc_cb) = 1
    /\ \E t \in 1..2 : tasks[t].esc_cb[1].escalated = 2
    /\ \E t \in 1..2 : tasks[t].pc = "done"

\* the total cost of a candidate over the classifications of a calibration
CalibrationCost(tk, threshold) ==
    LET Escalated(k) == tk.responses[k].confidence * ThresholdDen
                            < threshold * MaxConf
        Error(k) == ~Escalated(k) /\ tk.responses[k].label # tk.prompt.labels[k]
        N == 1..Len(tk.responses)
    IN  Cardinality({k \in N : Error(k)}) * tk.prompt.error_cost
          + Cardinality({k \in N : Escalated(k)}) * tk.prompt.escalation_cost

\* C28: calibrate classifies every text exactly once, in order, and returns
\* the first candidate of least total cost, which becomes the Jury's
\* threshold; with texts and labels of different lengths it raises before
\* any classification, and the Jury's threshold changes only in the step
\* in which a calibrate call finishes its sweep
C28_Calibrate ==
    /\ [](\A t \in Items : tasks[t].caller = "calibrator" =>
            LET tk == tasks[t]
                args == tk.prompt
                candidates == args.candidates
            IN  /\ Len(tk.responses) <= args.texts
                /\ \A k \in 1..Len(tk.responses) : tk.responses[k].text = k
                /\ args.texts # Len(args.labels) =>
                       /\ tk.pc = "failed" /\ tk.parse_error = "ValueError"
                       /\ tk.responses = <<>>
                /\ tk.pc = "done" =>
                       /\ Len(tk.responses) = args.texts
                       /\ cfg.threshold = tk.verdict.threshold
                       /\ \E i \in 1..Len(candidates) :
                            /\ candidates[i] = tk.verdict.threshold
                            /\ \A j \in 1..Len(candidates) :
                                 /\ CalibrationCost(tk, candidates[j])
                                      >= CalibrationCost(tk, candidates[i])
                                 /\ j < i =>
                                      CalibrationCost(tk, candidates[j])
                                        > CalibrationCost(tk, candidates[i]))
    /\ [][cfg' # cfg =>
            \E t \in Items :
                /\ tasks[t].pc # "done" \/ ncalls' # ncalls
                /\ tasks'[t].pc = "done"
                /\ tasks'[t].caller = "calibrator"
                /\ tasks'[t].prompt.texts = Len(tasks'[t].prompt.labels)
                /\ cfg' = [cfg EXCEPT !.threshold = tasks'[t].verdict.threshold]]_vars

\* two texts classified, two different candidates of the same positive
\* cost, and the first one returned and set on the Jury
C28_Witness ==
    \E t \in Items :
        LET tk == tasks[t]
        IN  /\ tk.caller = "calibrator" /\ tk.pc = "done"
            /\ call.status = "returned"
            /\ Len(tk.responses) = 2
            /\ Len(tk.prompt.candidates) = 2
            /\ tk.prompt.candidates[1] # tk.prompt.candidates[2]
            /\ CalibrationCost(tk, tk.prompt.candidates[1]) > 0
            /\ CalibrationCost(tk, tk.prompt.candidates[1])
                 = CalibrationCost(tk, tk.prompt.candidates[2])
            /\ tk.verdict.threshold = tk.prompt.candidates[1]
            /\ cfg.threshold = tk.prompt.candidates[1]
            /\ cfg.threshold # 70


\* C29: in Independent and Adversarial mode with at least one persona, the
\* transcript debate returns has exactly one round, and that round holds
\* one response per configured persona, in persona list order, whatever
\* the order in which the persona queries started and returned
C29_SingleRound ==
    \A t \in Items :
        (/\ tasks[t].caller = "engine" /\ tasks[t].pc = "done"
         /\ cfg.mode \in {"independent", "adversarial"}
         /\ NP >= 1) =>
            LET rounds == tasks[t].transcript.rounds
            IN  /\ Len(rounds) = 1
                /\ Len(rounds[1]) = NP
                /\ \A i \in PersonaIdx :
                       rounds[1][i].persona_name = cfg.personas[i]
                /\ tasks[t].llm_calls = NP

\* an Adversarial debate of three personas, two queries in flight at a
\* time, returned with its single round
C29_Witness ==
    \E t \in Items :
        /\ tasks[t].caller = "engine" /\ tasks[t].pc = "done"
        /\ call.status = "returned"
        /\ cfg.mode = "adversarial" /\ NP = 3 /\ cfg.debate_concurrency = 2
        /\ Len(tasks[t].transcript.rounds) = 1
        /\ Len(tasks[t].transcript.rounds[1]) = 3
        /\ tasks[t].transcript.rounds[1][1].label
             # tasks[t].transcript.rounds[1][3].label


\* C30: in Deliberation mode with personas, max_rounds >= 2 and no cost
\* ceiling, debate never goes on to its summary or returns with fewer than
\* two rounds, and a returned transcript in which every response of every
\* round carries one and the same label has exactly two rounds and the
\* text of the one summary completion as its summary: the unanimous first
\* round did not end the debate, the unanimous second round did
C30_SecondRoundDespiteConsensus ==
    \A t \in Items :
        LET tk == tasks[t]
            rounds == tk.transcript.rounds
            labels == {rounds[r][k].label :
                         r \in 1..Len(rounds), k \in PersonaIdx}
        IN  (/\ tk.caller = "engine" /\ cfg.mode = "deliberation" /\ NP >= 1
             /\ cfg.max_rounds >= 2 /\ cfg.max_debate_cost_usd = NoneCost) =>
                /\ tk.pc = "summary" => Len(tk.rounds) >= 2
                /\ tk.pc = "done" =>
                       /\ Len(rounds) >= 2
                       /\ Cardinality(labels) = 1 =>
                              /\ Len(rounds) = 2
                              /\ tk.transcript.summary # NoneRec
                              /\ tk.transcript.summary = SummaryText
                              /\ tk.summary_calls = 1
                              /\ tk.llm_calls = 2 * NP + 1

\* two personas agree in both rounds of a debate that could have run three
C30_Witness ==
    \E t \in Items :
        LET rounds == tasks[t].transcript.rounds
        IN  /\ tasks[t].caller = "engine" /\ tasks[t].pc = "done"
            /\ call.status = "returned"
            /\ cfg.mode = "deliberation" /\ NP = 2 /\ cfg.max_rounds = 3
            /\ cfg.max_debate_cost_usd = NoneCost
            /\ Len(rounds) = 2
            /\ \A r \in 1..2, k \in 1..2 : rounds[r][k].label = rounds[1][1].label
            /\ tasks[t].transcript.summary = SummaryText


\* C31: after any sequence of classify and classify_batch calls none of
\* which raised, escalated is the number of verdicts returned with
\* was_escalated true (cost guard verdicts among them), fast_path the
\* number returned with was_escalated false, and total the number of texts
C31_StatsMatchVerdicts ==
    (call.status # "running" /\ call.log.raised = 0) =>
        /\ stats.escalated = call.log.escalated
        /\ stats.fast_path = call.log.fast_path
        /\ stats.total = call.log.texts

\* two calls returned, three texts or more, a cost guard verdict and a fast
\* path verdict in the last batch
C31_Witness ==
    /\ ncalls = 2 /\ call.status = "returned" /\ call.kind = "batch"
    /\ call.log.raised = 0 /\ call.log.texts >= 3
    /\ stats.escalated >= 2 /\ stats.fast_path >= 1
    /\ \E t, u \in 1..call.n :
        /\ call.result[t].judge_strategy = "cost_guard_primary_fallback"
        /\ ~call.result[u].was_escalated


\* the engine stopped because of the ceiling: a Sequential round that does
\* not cover every persona, a Deliberation transcript without its summary
StoppedEarly(transcript) ==
    /\ cfg.max_debate_cost_usd # NoneCost /\ NP >= 1
    /\ \/ cfg.mode = "sequential" /\ Len(transcript.rounds[1]) < NP
       \/ cfg.mode = "deliberation" /\ transcript.summary = NoneRec

\* C32: with a maximum debate cost configured the judge is invoked only on
\* a transcript whose cost is at most that maximum, and a transcript of a
\* debate that the ceiling stopped early is never judged: classify returns
\* the cost_guard_primary_fallback verdict for it
C32_JudgeWithinCeiling ==
    \A t \in Items :
        LET tk == tasks[t]
        IN  (JuryTask(tk) /\ tk.transcript # NoneRec
             /\ cfg.max_debate_cost_usd # NoneCost) =>
                /\ tk.judge_calls > 0 =>
                       tk.transcript.total_cost_usd <= cfg.max_debate_cost_usd
                /\ StoppedEarly(tk.transcript) =>
                       /\ tk.judge_calls = 0
                       /\ tk.pc = "done"
                       /\ tk.verdict.judge_strategy = "cost_guard_primary_fallback"
                       /\ tk.verdict.debate_transcript = tk.transcript

\* a Sequential round of one response out of two personas, answered with
\* the cost guard verdict
C32_Witness ==
    \E t \in Items :
        /\ JuryTask(tasks[t]) /\ tasks[t].pc = "done"
        /\ call.status = "returned"
        /\ cfg.mode = "sequential" /\ NP = 2
        /\ tasks[t].transcript # NoneRec
        /\ Len(tasks[t].transcript.rounds[1]) = 1
        /\ tasks[t].judge_calls = 0
        /\ tasks[t].verdict.judge_strategy = "cost_guard_primary_fallback"


\* the completion calls of a debate as the claim bounds them
CallsAsClaimed(tk) ==
    IF cfg.mode \in {"independent", "adversarial"} THEN tk.llm_calls = NP
    ELSE IF cfg.mode = "sequential" THEN tk.llm_calls \in 1..NP
    ELSE tk.llm_calls <= NP * Max(1, cfg.max_rounds) + 1

\* C33 as stated: the bounds hold for every persona list
C33_AsClaimed ==
    \A t \in Items :
        (tasks[t].caller = "engine" /\ tasks[t].pc = "done") =>
            CallsAsClaimed(tasks[t])

\* C33: when every completion call returns, every debate returns, whatever
\* the mode, the persona list, max_rounds (0 and -1 included) and the
\* ceiling; with at least one persona the completion calls are bounded as
\* claimed, never more than the bound while the debate runs, and without
\* personas no call is made in any mode
C33_DebateTerminates ==
    /\ (call.status = "running") ~> (call.status = "returned")
    /\ [](\A t \in Items : tasks[t].caller = "engine" =>
            /\ NP = 0 => tasks[t].llm_calls = 0
            /\ tasks[t].llm_calls <=
                   IF cfg.mode = "deliberation"
                   THEN NP * Max(1, cfg.max_rounds) + 1 ELSE NP
            /\ (tasks[t].pc = "done" /\ NP >= 1) => CallsAsClaimed(tasks[t]))

\* a Deliberation debate with max_rounds -1 returned after one round and
\* its summary
C33_Witness ==
    \E t \in Items :
        /\ tasks[t].caller = "engine" /\ tasks[t].pc = "done"
        /\ call.status = "returned"
        /\ cfg.mode = "deliberation" /\ cfg.max_rounds < 0 /\ NP = 2
        /\ tasks[t].llm_calls = NP + 1
        /\ tasks[t].transcript.summary = SummaryText


\* a debate whose rounds are parallel rounds
ParallelTask(tk) ==
    tk.caller = "engine" /\ cfg.mode # "sequential" /\ NP >= 1

\* C34: a parallel round enters the transcript as the reply of each persona
\* at that persona's position of the configured list, whatever the order in
\* which the replies arrived, so the returned transcript and the majority
\* verdict computed from it (the label of the first persona, in list order,
\* whose label has the most votes) are those of the replies alone
C34_ListOrder ==
    /\ [](\A t \in Items : ParallelTask(tasks[t]) =>
            LET tk == tasks[t]
                replies == [i \in PersonaIdx |-> tk.cur[i].response]
                votes(i) == Cardinality({k \in PersonaIdx :
                                replies[k].label = replies[i].label})
                first == CHOOSE i \in PersonaIdx :
                            /\ \A k \in PersonaIdx : votes(k) <= votes(i)
                            /\ \A k \in 1..(i - 1) : votes(k) < votes(i)
            IN  /\ \A r \in 1..Len(tk.rounds) :
                    /\ Len(tk.rounds[r]) = NP
                    /\ \A i \in PersonaIdx :
                         tk.rounds[r][i].persona_name = cfg.personas[i]
                /\ tk.pc = "done" =>
                    /\ tk.transcript.rounds[Len(tk.transcript.rounds)] = replies
                    /\ MajorityVoteJudge(tk.transcript).label
                         = replies[first].label)
    /\ [][\A t \in Items :
            (ParallelTask(tasks[t]) /\ ncalls' = ncalls
                /\ tasks'[t].rounds # tasks[t].rounds) =>
                tasks'[t].rounds =
                    Append(tasks[t].rounds,
                           [i \in PersonaIdx |-> tasks[t].cur[i].response])]_vars

\* two personas disagree, the second one's reply arrived first, and the
\* majority verdict goes to the first persona of the list
C34_Witness ==
    \E t \in Items :
        /\ ParallelTask(tasks[t]) /\ tasks[t].pc = "done" /\ NP = 2
        /\ call.status = "returned"
        /\ tasks[t].cur[1].arrived = 2 /\ tasks[t].cur[2].arrived = 1
        /\ tasks[t].transcript.rounds[1][1].label
             # tasks[t].transcript.rounds[1][2].label
        /\ MajorityVoteJudge(tasks[t].transcript).label
             = tasks[t].cur[1].response.label


\* C35: the totals of every transcript debate returns, in every mode and on
\* every exit path, are the sums over all responses of all its rounds, plus
\* the tokens and the cost of the summary completion when there is a
\* summary, a completion without a cost adding 0; and while the debate runs
\* the running totals are the sums over the responses received so far
C35_TotalsAreSums ==
    \A t \in Items :
        LET tk == tasks[t]
            transcript == tk.transcript
            tokens == RoundsTokens(transcript.rounds)
            cost == RoundsCost(transcript.rounds)
        IN  tk.caller = "engine" =>
            /\ tk.pc = "seq" =>
                   /\ tk.total_tokens = SumTokens(tk.responses)
                   /\ tk.total_cost = SumCost(tk.responses)
            /\ tk.pc \in {"round", "summary"} =>
                   /\ tk.total_tokens = RoundsTokens(tk.rounds)
                   /\ tk.total_cost = RoundsCost(tk.rounds)
            /\ tk.pc = "done" =>
                   IF transcript.summary = NoneRec
                   THEN /\ transcript.total_tokens = tokens
                        /\ transcript.total_cost_usd = cost
                   ELSE \E p \in cfg.payloads :
                        /\ transcript.total_tokens = tokens + p.tokens
                        /\ transcript.total_cost_usd
                             = cost + (IF p.cost_usd = NoneCost
                                       THEN 0 ELSE p.cost_usd)

\* a Deliberation debate of two rounds and a summary that cost one unit,
\* in which some but not all of the four persona completions had a cost
C35_Witness ==
    \E t \in Items :
        LET tk == tasks[t]
        IN  /\ tk.caller = "engine" /\ tk.pc = "done" /\ NP = 2
            /\ call.status = "returned"
            /\ cfg.mode = "deliberation"
            /\ Len(tk.transcript.rounds) = 2
            /\ tk.transcript.summary # NoneRec
            /\ tk.transcript.total_cost_usd = RoundsCost(tk.transcript.rounds) + 1
            /\ RoundsCost(tk.transcript.rounds) \in 1..3
            /\ tk.transcript.total_tokens
                 = RoundsTokens(tk.transcript.rounds) + 3


\* C36: in Deliberation mode the rounds grow only by the append of a round
\* that holds a response of every persona, and every persona queried in a
\* round k >= 2 (k = iter + 1) is shown the k-1 rounds completed before,
\* the first one first, and nothing of round k, also when other replies of
\* round k have arrived before its query started
C36_PriorRoundsShown ==
    /\ [](\A t \in Items :
            (DelibTask(tasks[t]) /\ tasks[t].stage = "delib") =>
                LET tk == tasks[t]
                IN  /\ tk.iter >= 1 /\ Len(tk.rounds) \in {tk.iter, tk.iter + 1}
                    /\ tk.pc = "round" => Len(tk.rounds) = tk.iter
                    /\ \A i \in PersonaIdx : tk.cur[i].st # "pending" =>
                         /\ tk.cur[i].prompt.kind = "deliberation"
                         /\ tk.cur[i].prompt.persona = cfg.personas[i]
                         /\ tk.cur[i].prompt.prior
                              = Shown(SubSeq(tk.rounds, 1, tk.iter)))
    /\ [][\A t \in Items :
            (DelibTask(tasks[t]) /\ ncalls' = ncalls
             /\ tasks'[t].rounds # tasks[t].rounds) =>
                /\ Len(tasks'[t].rounds) = Len(tasks[t].rounds) + 1
                /\ SubSeq(tasks'[t].rounds, 1, Len(tasks[t].rounds))
                     = tasks[t].rounds
                /\ Len(tasks'[t].rounds[Len(tasks'[t].rounds)]) = NP]_vars

\* round 3 of two personas, one at a time: the second persona is queried
\* after the first one's reply of round 3 arrived and is shown rounds 1, 2
C36_Witness ==
    \E t \in Items :
        LET tk == tasks[t]
        IN  /\ DelibTask(tk) /\ tk.stage = "delib" /\ tk.pc = "round"
            /\ NP = 2 /\ cfg.debate_concurrency = 0
            /\ Len(tk.rounds) = 2
            /\ tk.cur[1].st = "done" /\ tk.cur[2].st = "inflight"
            /\ tk.cur[2].prompt.prior = Shown(tk.rounds)
            /\ tk.rounds[1] # tk.rounds[2]


\* C37: in Adversarial mode the query of the persona at 0-based position i
\* of the configured list carries the prosecution stance when i is even and
\* the defense stance when i is odd, equal entries of the list included
C37_StanceByPosition ==
    \A t \in Items :
        (tasks[t].caller = "engine" /\ cfg.mode = "adversarial") =>
            \A i \in DOMAIN tasks[t].cur :
                tasks[t].cur[i].st # "pending" =>
                    tasks[t].cur[i].prompt.stance
                        = IF (i - 1) % 2 = 0 THEN "Prosecution" ELSE "Defense"

\* the second of two equal personas is queried as prosecution
C37_Witness ==
    \E t \in Items :
        /\ tasks[t].caller = "engine" /\ cfg.mode = "adversarial" /\ NP = 2
        /\ cfg.personas[1] = cfg.personas[2]
        /\ tasks[t].cur[2].st = "inflight"
        /\ tasks[t].cur[2].prompt.stance = "Prosecution"


\* C38: with on_verdict configured, a classify call whose judge returned
\* invokes it exactly once, in the step that ends classify, with the
\* verdict classify returns (was_escalated, primary_result and
\* debate_transcript already set by the orchestrator); it is not invoked
\* for a fast-path verdict, for a cost guard verdict, or when the judge
\* raised
C38_VerdictCallback ==
    /\ [](\A t \in Items : (JuryTask(tasks[t]) /\ cfg.on_verdict) =>
            LET tk == tasks[t]
            IN  /\ Len(tk.verdict_cb) <= 1
                /\ tk.verdict_cb # <<>> =>
                       /\ tk.pc = "done" /\ tk.judge_calls = 1
                       /\ tk.verdict_cb[1] = tk.verdict
                       /\ tk.verdict.was_escalated
                       /\ tk.verdict.primary_result = tk.primary
                       /\ tk.verdict.debate_transcript = tk.transcript
                /\ tk.pc = "done" =>
                       /\ tk.verdict_cb # <<>> <=> tk.judge_calls = 1
                       /\ tk.verdict.judge_strategy
                            \in {"primary_classifier",
                                 "cost_guard_primary_fallback"}
                              => tk.verdict_cb = <<>>
                /\ tk.pc = "failed" => tk.verdict_cb = <<>>)
    /\ [][\A t \in Items :
            (tasks'[t].verdict_cb # tasks[t].verdict_cb /\ ncalls' = ncalls) =>
                /\ call.status = "running" /\ call'.status = "running"
                /\ tasks[t].pc # "done" /\ tasks'[t].pc = "done"]_vars

\* the judge left was_escalated false and named no primary result; the
\* callback saw the verdict with both set
C38_Witness ==
    \E t \in Items :
        /\ JuryTask(tasks[t]) /\ tasks[t].pc = "done" /\ cfg.on_verdict
        /\ call.status = "returned"
        /\ Len(tasks[t].verdict_cb) = 1
        /\ ~tasks[t].judge_out.was_escalated
        /\ tasks[t].judge_out.primary_result = NoneRec
        /\ tasks[t].verdict_cb[1].was_escalated
        /\ tasks[t].verdict_cb[1].primary_result = tasks[t].primary


\* C39: BayesianJudge.judge returns a Verdict, and does not raise, for every
\* transcript whose final round is not empty and every label list, the
\* empty one included
C39_BayesianNeverRaises ==
    \A t \in Items :
        (/\ tasks[t].caller = "judge"
         /\ \A j \in cfg.judge_choices : j.strategy = "bayesian"
         /\ ~NoFinalRound(tasks[t].transcript)) =>
            /\ tasks[t].pc = "done"
            /\ tasks[t].verdict.judge_strategy = "bayesian"

\* judge() called with no labels on a round of one response has raised
C39_Witness ==
    \E t \in Items :
        /\ tasks[t].caller = "judge" /\ tasks[t].pc = "failed"
        /\ call.status = "raised"
        /\ \A j \in cfg.judge_choices : j.strategy = "bayesian"
        /\ cfg.labels = <<>>
        /\ Len(tasks[t].transcript.rounds) = 1
        /\ Len(tasks[t].transcript.rounds[1]) = 1
        /\ tasks[t].parse_error = "ValueError"


\* C40: a batch called with concurrency <= 0 runs one classify call at a
\* time, a Jury built with debate_concurrency <= 0 runs one persona query
\* of a round at a time, and when every call returns, every waiting item is
\* admitted, every pending query is issued and the batch returns
C40_NoDeadlock ==
    /\ [](call.kind = "batch" /\ call.status = "running"
            /\ call.concurrency <= 0 =>
            /\ Cardinality(BatchInFlight) <= 1
            /\ Cardinality(BatchInFlight) + call.sem = 1)
    /\ [](\A t \in Items :
            (cfg.debate_concurrency <= 0 /\ tasks[t].pc = "round") =>
                /\ Cardinality(RoundInFlight(tasks[t])) <= 1
                /\ Cardinality(RoundInFlight(tasks[t])) + tasks[t].sem = 1)
    /\ \A t \in Items :
            (tasks[t].pc = "queued") ~> (tasks[t].pc = "classifier")
    /\ \A t \in Items : \A i \in 1..MaxPersonas :
            (tasks[t].pc = "round" /\ i \in DOMAIN tasks[t].cur
                /\ tasks[t].cur[i].st = "pending")
            ~> (tasks[t].pc = "round" /\ i \in DOMAIN tasks[t].cur
                /\ tasks[t].cur[i].st = "inflight")
    /\ (call.status = "running") ~> (call.status = "returned")

\* a batch of two with concurrency -1 on a Jury with debate_concurrency -1
\* has returned two escalated verdicts
C40_Witness ==
    /\ call.kind = "batch" /\ call.status = "returned" /\ call.n = 2
    /\ call.concurrency < 0 /\ cfg.debate_concurrency < 0
    /\ \A t \in 1..2 :
        /\ call.result[t].was_escalated
        /\ Len(call.result[t].debate_transcript.rounds) = 2

====
